---- MODULE Spec2Model ----
(***************************************************************************)
(* Fleet-orchestration core of the delivery planner:                       *)
(*   - MAVLinkPortManager   (mission/mavlink_port_manager.py)              *)
(*   - DroneFleetManager    (mission/drone_fleet_manager.py)               *)
(*   - MultiDroneMissionRunner (mission/multi_drone_mission_runner.py)     *)
(*   - OrderScheduler       (scheduler.py)                                 *)
(* All coroutines run on one asyncio event loop: an action is the code     *)
(* between two suspension points (await on the vehicle link or a sleep).   *)
(***************************************************************************)
EXTENDS Integers, Sequences, FiniteSets, TLC

\* ------------------------------------------------------------------ bounds
NumDrones == 2
NumOrders == 2
PoolCount == 3
NumPoolUnits == 4
MonitorTimeoutPolls == 1
MaxRequests == 1
NumFaultPorts == 2
NumFaultUnits == 2
MaxLoops == 2
MaxHistoryLength == 2
MaxTicks == 3
NumMissions == 3
NumWaypoints == 1
max_queue_size == 2

BasePort == 14540

None == 0
Drones == 1..NumDrones
Orders == 1..NumOrders
PoolUnits == 1..NumPoolUnits
PoolPorts == BasePort..(BasePort + PoolCount - 1)
FaultUnits == 1..NumFaultUnits
FaultPorts == BasePort..(BasePort + NumFaultPorts - 1)

\* DroneStatus (the code has no "connecting" member)
IDLE == "idle"
ARMED == "armed"
IN_FLIGHT == "in_flight"
MISSION_ACTIVE == "mission_active"
RETURNING == "returning"
LANDING == "landing"
ERROR == "error"
OFFLINE == "offline"
DroneStatus == {IDLE, ARMED, IN_FLIGHT, MISSION_ACTIVE, RETURNING, LANDING, ERROR, OFFLINE}

\* OrderStatus
PENDING == "pending"
SCHEDULED == "scheduled"
ORDER_IN_FLIGHT == "order_in_flight"
COMPLETED == "completed"
FAILED == "failed"

\* Priority
LOW == "low"
MEDIUM == "medium"
HIGH == "high"
Priority == {LOW, MEDIUM, HIGH}

\* MissionStatus (completed and failed are spelled as in OrderStatus)
CREATED == "created"
UPLOADED == "uploaded"
EXECUTING == "executing"
ABORTED == "aborted"
MissionStatus == {CREATED, UPLOADED, EXECUTING, COMPLETED, ABORTED, FAILED}

\* SchedulerMode
MANUAL == "manual"
SEMI_AUTO == "semi_auto"
FULL_AUTO == "full_auto"
SchedulerMode == {MANUAL, SEMI_AUTO, FULL_AUTO}

max_concurrent_missions == 5
Missions == 1..NumMissions

VARIABLES
    port_manager,   \* MAVLinkPortManager: [ports, drone_port_mapping, reserved_ports]
    pm_ret,         \* the last port-manager call and the value it returned
    mavsdk,         \* MAVSDK_AVAILABLE: FALSE is the simulation build
    drones,         \* DroneFleetManager.drones: drone_id -> DroneInfo
    order_assignments, \* DroneFleetManager.order_assignments: order_id -> drone_id
    conn_task,      \* DroneFleetManager._connection_tasks: state of each _connect_drone task
    unit_trace,     \* per order: the statuses its drone went through while bound to it
    active_missions, \* MultiDroneMissionRunner.active_missions: order_id -> drone_id
    mission_tasks,  \* MultiDroneMissionRunner.mission_tasks: the order ids it has a task for
    task_pc,        \* where the task _execute_mission_for_drone of each order is
    task_cancel,    \* task.cancel() was called on the order's task and is not yet delivered
    task_drone,     \* the drone_id argument of the order's task
    mission_result, \* what the vehicle link answered to the order's task
    abort_pc,       \* an outside call of abort_mission(order) awaiting return_to_launch
    aborted,        \* an abort_mission(order) returned True, and in which phase of the task
    order_status,   \* the orders table: status of each order ("none": no such row)
    created_at,     \* the orders table: created_at of each order
    current_orders, \* OrderScheduler.current_orders: order_id -> drone_id
    monitor_pc,     \* where _monitor_multi_drone_mission of each order is
    monitor_polls,  \* how many sleeps of its loop the monitor of each order has made
    job_log,        \* per order: the statuses written to its row, in order
    failure_reason, \* the orders table: failure_reason of each order ("": NULL)
    priority,       \* the orders table: priority of each order ("none": no such row)
    requests,       \* number of requests (abort, status update, shutdown) served
    is_monitoring,  \* MultiDroneTelemetryAggregator.is_monitoring
    loop_tasks,     \* the tasks start_monitoring created and that have not returned
    clock,          \* number of readings of the clock by the telemetry loop
    drone_telemetry_history, \* MultiDroneTelemetryAggregator: drone_id -> timestamps of its entries
    drone_health_status, \* MultiDroneTelemetryAggregator: drone_id -> DroneHealthMetrics
    fleet_data,     \* the FleetTelemetryData last handed to the fleet callbacks
    mission_db,     \* the missions table: status of each mission ("none": no such row)
    exec_task,      \* per mission: the call of MissionService.execute_mission in progress
    mission_queue,  \* MissionScheduler.mission_queue: the three priority lists and scheduled
    mode,           \* MissionScheduler.mode
    is_running,     \* MissionScheduler.is_running
    loop_await,     \* the mission whose execution the scheduler loop awaits (0: none)
    queue_ret,      \* the last call on the mission scheduler that returned, and its value
    mission_updates \* per mission: the notifications sent about it

pool_vars == <<port_manager, pm_ret>>
fleet_vars == <<mavsdk, drones, order_assignments, conn_task, unit_trace>>
runner_vars == <<active_missions, mission_tasks, task_pc, task_cancel, task_drone,
                 mission_result, abort_pc, aborted>>
order_vars == <<order_status, created_at, current_orders, monitor_pc, monitor_polls,
                job_log, failure_reason, priority>>
sched_vars == <<order_vars, requests>>
mission_vars == <<runner_vars, sched_vars>>
telemetry_vars == <<is_monitoring, loop_tasks, clock, drone_telemetry_history, drone_health_status, fleet_data>>
service_vars == <<mission_db, exec_task, mission_queue, mode, is_running, loop_await,
                  queue_ret, mission_updates>>

\* =================================================== MAVLinkPortManager

\* PortConfig(port=port): is_available = True, assigned_drone_id = None
PortConfig == [is_available |-> TRUE, assigned_drone_id |-> None]

\* __init__: no ports, no mapping, no reservations.
\* ports is a dict keyed by port number (insertion order = ascending port,
\* because initialize_port_pool inserts base_port + i for i = 0, 1, ...);
\* drone_port_mapping is a dict in insertion order: a sequence of entries.
PortManagerNew ==
    [ports |-> [p \in {} |-> PortConfig],
     drone_port_mapping |-> <<>>,
     reserved_ports |-> {}]

\* initialize_port_pool(base_port, count): every port of the range that
\* passes the bind probe (_is_port_available) gets a fresh PortConfig.
initialize_port_pool(pm, base_port, count, bindable) ==
    LET new == {p \in base_port..(base_port + count - 1) : p \in bindable}
    IN [pm EXCEPT !.ports =
            [p \in (DOMAIN pm.ports) \cup new |->
                IF p \in new THEN PortConfig ELSE pm.ports[p]]]

MappingHas(m, drone_id) == \E i \in 1..Len(m) : m[i].drone_id = drone_id

MappingGet(m, drone_id) ==
    m[CHOOSE i \in 1..Len(m) : m[i].drone_id = drone_id].port

MappingDel(m, drone_id) == SelectSeq(m, LAMBDA e : e.drone_id # drone_id)

MinOf(S) == CHOOSE x \in S : \A y \in S : x <= y

\* a plausible slip: the availability flag is not tested
AllocCandidatesNoFlag(pm) ==
    {p \in DOMAIN pm.ports : p \notin pm.reserved_ports}

\* a variant of the loop's test without the look at the reservations
AllocCandidatesNoReservation(pm) ==
    {p \in DOMAIN pm.ports : pm.ports[p].is_available}

\* the ports the allocation loop may take: available and not reserved
AllocCandidates(pm) ==
    {p \in DOMAIN pm.ports : pm.ports[p].is_available /\ p \notin pm.reserved_ports}

\* a variant of the loop that walks the ports from the highest down
AllocPickHighest(pm) ==
    CHOOSE x \in AllocCandidates(pm) : \A y \in AllocCandidates(pm) : y <= x

\* first port, in dict order, the loop of allocate_port accepts
AllocPick(pm) == MinOf(AllocCandidates(pm))

\* a variant of allocate_port without the look-up of the drone's own port
allocate_port_always_new(pm, drone_id) ==
    IF AllocCandidates(pm) = {}
    THEN [pm |-> pm, ret |-> None]
    ELSE LET port == AllocPick(pm)
         IN [pm |-> [pm EXCEPT
                        !.ports[port] = [is_available |-> FALSE,
                                         assigned_drone_id |-> drone_id],
                        !.drone_port_mapping =
                            Append(@, [drone_id |-> drone_id, port |-> port])],
             ret |-> port]

\* a variant of allocate_port that, finding no free port, hands out the
\* first port of the pool again
allocate_port_reuses_first(pm, drone_id) ==
    IF MappingHas(pm.drone_port_mapping, drone_id)
    THEN [pm |-> pm, ret |-> MappingGet(pm.drone_port_mapping, drone_id)]
    ELSE IF DOMAIN pm.ports = {}
    THEN [pm |-> pm, ret |-> None]
    ELSE LET port == IF AllocCandidates(pm) = {} THEN MinOf(DOMAIN pm.ports)
                     ELSE AllocPick(pm)
         IN [pm |-> [pm EXCEPT
                        !.ports[port] = [is_available |-> FALSE,
                                         assigned_drone_id |-> drone_id],
                        !.drone_port_mapping =
                            Append(@, [drone_id |-> drone_id, port |-> port])],
             ret |-> port]

\* allocate_port(drone_id) -> port | None
allocate_port(pm, drone_id) ==
    IF MappingHas(pm.drone_port_mapping, drone_id)
    THEN [pm |-> pm, ret |-> MappingGet(pm.drone_port_mapping, drone_id)]
    ELSE IF AllocCandidates(pm) = {}
    THEN [pm |-> pm, ret |-> None]
    ELSE LET port == AllocPick(pm)
         IN [pm |-> [pm EXCEPT
                        !.ports[port] = [is_available |-> FALSE,
                                         assigned_drone_id |-> drone_id],
                        !.drone_port_mapping =
                            Append(@, [drone_id |-> drone_id, port |-> port])],
             ret |-> port]

\* a variant of release_port that forgets to clear the port's assignee
release_port_keeps_assignee(pm, drone_id) ==
    IF ~MappingHas(pm.drone_port_mapping, drone_id)
    THEN [pm |-> pm, ret |-> FALSE]
    ELSE LET port == MappingGet(pm.drone_port_mapping, drone_id)
         IN IF port \in DOMAIN pm.ports
            THEN [pm |-> [pm EXCEPT
                            !.ports[port].is_available = TRUE,
                            !.drone_port_mapping = MappingDel(@, drone_id)],
                  ret |-> TRUE]
            ELSE [pm |-> pm, ret |-> FALSE]

\* release_port(drone_id) -> bool
release_port(pm, drone_id) ==
    IF ~MappingHas(pm.drone_port_mapping, drone_id)
    THEN [pm |-> pm, ret |-> FALSE]
    ELSE LET port == MappingGet(pm.drone_port_mapping, drone_id)
         IN IF port \in DOMAIN pm.ports
            THEN [pm |-> [pm EXCEPT
                            !.ports[port] = [is_available |-> TRUE,
                                             assigned_drone_id |-> None],
                            !.drone_port_mapping = MappingDel(@, drone_id)],
                  ret |-> TRUE]
            ELSE [pm |-> pm, ret |-> FALSE]

\* reserve_port(port) -> bool
reserve_port(pm, port) ==
    IF port \in DOMAIN pm.ports
    THEN [pm |-> [pm EXCEPT !.reserved_ports = @ \cup {port}], ret |-> TRUE]
    ELSE [pm |-> pm, ret |-> FALSE]

\* unreserve_port(port) -> bool
unreserve_port(pm, port) ==
    IF port \in pm.reserved_ports
    THEN [pm |-> [pm EXCEPT !.reserved_ports = @ \ {port}], ret |-> TRUE]
    ELSE [pm |-> pm, ret |-> FALSE]

\* validate_port_assignments() -> number of issues reported
\* (a) a mapping entry whose port an earlier entry already names,
\* (b) a mapped port whose config is marked available,
\* (c) an unavailable port whose assigned_drone_id is no key of the mapping.
validate_port_assignments(pm) ==
    LET m == pm.drone_port_mapping
        dup == {i \in 1..Len(m) : \E j \in 1..(i - 1) : m[j].port = m[i].port}
        avail == {i \in 1..Len(m) :
                    m[i].port \in DOMAIN pm.ports /\ pm.ports[m[i].port].is_available}
        orphan == {p \in DOMAIN pm.ports :
                    ~pm.ports[p].is_available
                    /\ ~MappingHas(m, pm.ports[p].assigned_drone_id)}
    IN Cardinality(dup) + Cardinality(avail) + Cardinality(orphan)

\* _reset_all_assignments()
reset_all_assignments(pm) ==
    [pm EXCEPT !.ports = [p \in DOMAIN pm.ports |-> PortConfig]]

RECURSIVE ReallocateAll(_, _)
ReallocateAll(pm, drones_to_reallocate) ==
    IF drones_to_reallocate = <<>> THEN pm
    ELSE ReallocateAll(allocate_port(pm, Head(drones_to_reallocate)).pm,
                       Tail(drones_to_reallocate))

\* auto_fix_port_assignments(): nothing when validate reports no issue;
\* otherwise reset, clear the mapping and allocate again in the mapping's
\* key order.
auto_fix_port_assignments(pm) ==
    IF validate_port_assignments(pm) = 0 THEN pm
    ELSE LET keys == [i \in 1..Len(pm.drone_port_mapping) |->
                        pm.drone_port_mapping[i].drone_id]
             cleared == [reset_all_assignments(pm) EXCEPT !.drone_port_mapping = <<>>]
         IN ReallocateAll(cleared, keys)

\* ---- the pool's operations as actions
Allocate(u) ==
    /\ port_manager' = allocate_port(port_manager, u).pm
    /\ pm_ret' = [op |-> "allocate", arg |-> u, ret |-> allocate_port(port_manager, u).ret]
    /\ UNCHANGED <<fleet_vars, mission_vars, telemetry_vars, service_vars>>

Release(u) ==
    /\ port_manager' = release_port(port_manager, u).pm
    /\ pm_ret' = [op |-> "release", arg |-> u, ret |-> release_port(port_manager, u).ret]
    /\ UNCHANGED <<fleet_vars, mission_vars, telemetry_vars, service_vars>>

Reserve(p) ==
    /\ port_manager' = reserve_port(port_manager, p).pm
    /\ pm_ret' = [op |-> "reserve", arg |-> p, ret |-> reserve_port(port_manager, p).ret]
    /\ UNCHANGED <<fleet_vars, mission_vars, telemetry_vars, service_vars>>

Unreserve(p) ==
    /\ port_manager' = unreserve_port(port_manager, p).pm
    /\ pm_ret' = [op |-> "unreserve", arg |-> p, ret |-> unreserve_port(port_manager, p).ret]
    /\ UNCHANGED <<fleet_vars, mission_vars, telemetry_vars, service_vars>>

AutoFix ==
    /\ port_manager' = auto_fix_port_assignments(port_manager)
    /\ pm_ret' = [op |-> "auto_fix", arg |-> None,
                  ret |-> validate_port_assignments(port_manager)]
    /\ UNCHANGED <<fleet_vars, mission_vars, telemetry_vars, service_vars>>

\* validate_port_assignments() called on its own: the pool is only read
Validate ==
    /\ port_manager' = port_manager
    /\ pm_ret' = [op |-> "validate", arg |-> None,
                  ret |-> validate_port_assignments(port_manager)]
    /\ UNCHANGED <<fleet_vars, mission_vars, telemetry_vars, service_vars>>

\* POST /validate (validate_fleet_configuration): the issues are reported
\* and, when there is one, auto_fix_port_assignments is applied
ValidateFleetConfiguration ==
    /\ port_manager' = IF validate_port_assignments(port_manager) > 0
                       THEN auto_fix_port_assignments(port_manager)
                       ELSE port_manager
    /\ pm_ret' = [op |-> "validate_endpoint", arg |-> None,
                  ret |-> validate_port_assignments(port_manager)]
    /\ UNCHANGED <<fleet_vars, mission_vars, telemetry_vars, service_vars>>

\* any values of the three fields of the port manager: every port of the
\* range with any flag and any assignee, any mapping (a dict: distinct
\* keys, in any insertion order), any reservations
FaultMappings ==
    UNION {{m \in [1..k -> [drone_id : FaultUnits, port : FaultPorts]] :
              \A i, j \in 1..k : i # j => m[i].drone_id # m[j].drone_id} :
           k \in 0..NumFaultUnits}

FaultPools ==
    [ports : [FaultPorts -> [is_available : BOOLEAN,
                             assigned_drone_id : FaultUnits \cup {None}]],
     drone_port_mapping : FaultMappings,
     reserved_ports : SUBSET FaultPorts]

FaultInit ==
    /\ port_manager \in FaultPools
    /\ pm_ret = [op |-> "new", arg |-> None, ret |-> None]

FaultNext ==
    \/ Validate
    \/ ValidateFleetConfiguration
    \/ AutoFix

\* a pool created by initialize_port_pool: any subset of the range may fail
\* the bind probe
PoolInit ==
    /\ \E bindable \in SUBSET PoolPorts :
          port_manager = initialize_port_pool(PortManagerNew, BasePort, PoolCount, bindable)
    /\ pm_ret = [op |-> "initialize", arg |-> None, ret |-> None]

PoolNext ==
    \/ \E u \in PoolUnits : Allocate(u)
    \/ \E u \in PoolUnits : Release(u)
    \/ \E p \in PoolPorts \cup {BasePort + PoolCount} : Reserve(p)
    \/ \E p \in PoolPorts \cup {BasePort + PoolCount} : Unreserve(p)
    \/ AutoFix

vars == <<pool_vars, fleet_vars, mission_vars, telemetry_vars, service_vars>>

\* ==================================================== DroneFleetManager
\* battery_level in percent (1.0 = 100); the levels the model draws from
BatteryLevels == {20, 100}

\* DroneInfo(config, status=OFFLINE): current_order_id None, battery 1.0,
\* is_connected False
DroneInfoNew ==
    [status |-> OFFLINE, current_order_id |-> None, battery_level |-> 100,
     is_connected |-> FALSE]

\* The operators below act on a record S holding the objects' fields
\* (drones, order_assignments, ...) and `writes`, the list of the status
\* assignments made so far in the running step.
SetStatus(S, drone_id, status, by, order_id) ==
    [S EXCEPT !.drones[drone_id].status = status,
              !.writes = Append(@, [unit |-> drone_id,
                                    from |-> S.drones[drone_id].status,
                                    to |-> status, by |-> by, order |-> order_id])]

\* a variant of get_available_drone that does not look at the status
get_available_drone_any_status(ds) ==
    LET ok == {d \in DOMAIN ds : /\ ds[d].is_connected
                                 /\ ds[d].battery_level > 20}
    IN IF ok = {} THEN None ELSE MinOf(ok)

\* get_available_drone(): first drone, in registration order, that is
\* IDLE, connected and has battery_level > 0.2
get_available_drone(ds) ==
    LET ok == {d \in DOMAIN ds : /\ ds[d].status = IDLE
                                 /\ ds[d].is_connected
                                 /\ ds[d].battery_level > 20}
    IN IF ok = {} THEN None ELSE MinOf(ok)

\* a variant of assign_order_to_drone that records the assignment before it
\* looks at the drone's status
assign_order_to_drone_records_first(S, order_id, drone_id) ==
    IF drone_id \notin DOMAIN S.drones THEN [S |-> S, ret |-> FALSE]
    ELSE IF S.drones[drone_id].status # IDLE
    THEN [S |-> [S EXCEPT !.order_assignments[order_id] = drone_id], ret |-> FALSE]
    ELSE [S |-> SetStatus(
                  [S EXCEPT !.order_assignments[order_id] = drone_id,
                            !.drones[drone_id].current_order_id = order_id],
                  drone_id, ARMED, "assign", order_id),
          ret |-> TRUE]

\* assign_order_to_drone(order_id, drone_id) -> bool
assign_order_to_drone(S, order_id, drone_id) ==
    IF drone_id \notin DOMAIN S.drones THEN [S |-> S, ret |-> FALSE]
    ELSE IF S.drones[drone_id].status # IDLE THEN [S |-> S, ret |-> FALSE]
    ELSE [S |-> SetStatus(
                  [S EXCEPT !.order_assignments[order_id] = drone_id,
                            !.drones[drone_id].current_order_id = order_id],
                  drone_id, ARMED, "assign", order_id),
          ret |-> TRUE]

\* get_drone_for_order(order_id)
get_drone_for_order(S, order_id) == S.order_assignments[order_id]

\* a variant of release_drone_from_order that leaves the status of a drone
\* in ERROR or OFFLINE as it is
release_drone_from_order_unless_down(S, order_id) ==
    IF S.order_assignments[order_id] = None THEN S
    ELSE LET drone_id == S.order_assignments[order_id]
             T == [S EXCEPT !.drones[drone_id].current_order_id = None,
                            !.order_assignments[order_id] = None]
         IN IF S.drones[drone_id].status \in {ERROR, OFFLINE} THEN T
            ELSE SetStatus(T, drone_id, IDLE, "release", order_id)

\* release_drone_from_order(order_id)
release_drone_from_order(S, order_id) ==
    IF S.order_assignments[order_id] = None THEN S
    ELSE LET drone_id == S.order_assignments[order_id]
         IN SetStatus(
              [S EXCEPT !.drones[drone_id].current_order_id = None,
                        !.order_assignments[order_id] = None],
              drone_id, IDLE, "release", order_id)

\* update_drone_status(drone_id, status): no check of the status it leaves
update_drone_status(S, drone_id, status, by) ==
    IF drone_id \in DOMAIN S.drones
    THEN SetStatus(S, drone_id, status, by, S.drones[drone_id].current_order_id)
    ELSE S

\* shutdown_fleet(): every drone disconnected and OFFLINE
RECURSIVE ShutdownDrones(_, _)
ShutdownDrones(S, todo) ==
    IF todo = {} THEN S
    ELSE LET d == MinOf(todo)
         IN ShutdownDrones(
              SetStatus([S EXCEPT !.drones[d].is_connected = FALSE],
                        d, OFFLINE, "shutdown", S.drones[d].current_order_id),
              todo \ {d})

\* the fleet manager's fields as a record, with no write made yet
FleetState == [drones |-> drones, order_assignments |-> order_assignments,
               writes |-> <<>>]

\* what a list of writes adds to the trace of an order: the statuses its
\* drone took while bound to it (an assignment also shows the status it left)
RECURSIVE TraceOf(_, _)
TraceOf(ws, order_id) ==
    IF ws = <<>> THEN <<>>
    ELSE LET w == Head(ws)
         IN (IF w.order = order_id /\ w.from # w.to
             THEN (IF w.by = "assign" THEN <<w.from, w.to>> ELSE <<w.to>>)
             ELSE <<>>) \o TraceOf(Tail(ws), order_id)

FleetCommit(S) ==
    /\ drones' = S.drones
    /\ order_assignments' = S.order_assignments
    /\ unit_trace' = [o \in Orders |-> unit_trace[o] \o TraceOf(S.writes, o)]

\* the same for a call made from outside the program's own flows: it adds
\* nothing to the traces
FleetCommitCall(S) ==
    /\ drones' = S.drones
    /\ order_assignments' = S.order_assignments
    /\ UNCHANGED unit_trace

\* ---- the fleet manager's operations as actions

\* initialize_fleet(drone_configs) with a list of n configurations:
\* registers the drones in the order of the list and starts one
\* _connect_drone task per drone
InitializeFleet(n) ==
    /\ DOMAIN drones = {}
    /\ drones' = [d \in 1..n |-> DroneInfoNew]
    /\ conn_task' = [d \in Drones |-> IF d <= n THEN "pending" ELSE "none"]
    /\ UNCHANGED <<mavsdk, order_assignments, unit_trace, pool_vars, mission_vars, telemetry_vars, service_vars>>

\* _connect_drone(drone_id) completing: connected and IDLE; with MAVSDK the
\* connection may raise, which sets ERROR
ConnectDrone(d) ==
    /\ d \in DOMAIN drones
    /\ conn_task[d] = "pending"
    /\ \E ok \in (IF mavsdk THEN BOOLEAN ELSE {TRUE}) :
          FleetCommit(
            IF ok
            THEN SetStatus([FleetState EXCEPT !.drones[d].is_connected = TRUE],
                           d, IDLE, "connect", None)
            ELSE SetStatus(FleetState, d, ERROR, "connect", None))
    /\ conn_task' = [conn_task EXCEPT ![d] = "done"]
    /\ UNCHANGED <<mavsdk, pool_vars, mission_vars, telemetry_vars, service_vars>>

\* _monitor_drone_telemetry(drone_id): started only on a MAVSDK connection;
\* copies the battery level the vehicle reports
TelemetryBattery(d, b) ==
    /\ mavsdk
    /\ d \in DOMAIN drones
    /\ drones[d].is_connected
    /\ drones' = [drones EXCEPT ![d].battery_level = b]
    /\ UNCHANGED <<mavsdk, order_assignments, conn_task, unit_trace, pool_vars, mission_vars, telemetry_vars, service_vars>>

\* shutdown_fleet()
ShutdownFleet ==
    /\ DOMAIN drones # {}
    /\ conn_task' = [d \in Drones |-> IF conn_task[d] = "pending" THEN "cancelled"
                                      ELSE conn_task[d]]
    /\ FleetCommit(ShutdownDrones(FleetState, DOMAIN drones))
    /\ UNCHANGED <<mavsdk, pool_vars, mission_vars, telemetry_vars, service_vars>>

\* direct calls of the registry's operations, any argument
CallAssign(o, d) ==
    /\ FleetCommitCall(assign_order_to_drone(FleetState, o, d).S)
    /\ UNCHANGED <<mavsdk, conn_task, pool_vars, mission_vars, telemetry_vars, service_vars>>

CallRelease(o) ==
    /\ FleetCommitCall(release_drone_from_order(FleetState, o))
    /\ UNCHANGED <<mavsdk, conn_task, pool_vars, mission_vars, telemetry_vars, service_vars>>

CallUpdateStatus(d, s) ==
    /\ FleetCommitCall(update_drone_status(FleetState, d, s, "request"))
    /\ UNCHANGED <<mavsdk, conn_task, pool_vars, mission_vars, telemetry_vars, service_vars>>

CallShutdownFleet ==
    /\ DOMAIN drones # {}
    /\ conn_task' = [d \in Drones |-> IF conn_task[d] = "pending" THEN "cancelled"
                                      ELSE conn_task[d]]
    /\ FleetCommitCall(ShutdownDrones(FleetState, DOMAIN drones))
    /\ UNCHANGED <<mavsdk, pool_vars, mission_vars, telemetry_vars, service_vars>>

\* state after construction
FleetInit ==
    /\ mavsdk \in BOOLEAN
    /\ drones = [d \in {} |-> DroneInfoNew]
    /\ order_assignments = [o \in Orders |-> None]
    /\ conn_task = [d \in Drones |-> "none"]
    /\ unit_trace = [o \in Orders |-> <<>>]

RegistryNext ==
    \/ InitializeFleet(NumDrones)
    \/ \E d \in Drones : ConnectDrone(d)
    \/ \E d \in Drones, b \in BatteryLevels : TelemetryBattery(d, b)
    \/ CallShutdownFleet
    \/ \E o \in Orders, d \in Drones \cup {NumDrones + 1} : CallAssign(o, d)
    \/ \E o \in Orders : CallRelease(o)
    \/ \E d \in Drones, s \in DroneStatus : CallUpdateStatus(d, s)

\* ============================================== MultiDroneMissionRunner
\* Where the coroutine _execute_mission_for_drone(order, drone_id) of an
\* order is (task_pc):
\*   "none"       no task was created
\*   "created"    created by execute_order_mission, not yet run
\*   "upload"     awaiting system.mission.upload_mission
\*   "arm"        awaiting system.action.arm
\*   "start"      awaiting system.mission.start_mission
\*   "progress"   awaiting system.mission.mission_progress
\*   "sim_check"  awaiting the sleep(1) of the simulated completion check
\*   "position"   awaiting the telemetry of get_drone_position
\*   "poll_sleep" awaiting the sleep(1.0) that ends a monitoring iteration
\*   "settle"     awaiting the sleep(5.0) after completion was reported
\*   "done"       ran to its end; "cancelled" ended by CancelledError
TaskAwaits == {"upload", "arm", "start", "progress", "sim_check", "position",
               "poll_sleep", "settle"}
TaskExecuting == {"progress", "sim_check", "position", "poll_sleep"}
TaskEnded == {"done", "cancelled"}

\* the objects' fields as one record, with no status write made yet
MissionState ==
    [drones |-> drones, order_assignments |-> order_assignments, writes |-> <<>>,
     active_missions |-> active_missions, mission_tasks |-> mission_tasks,
     task_cancel |-> task_cancel, task_pc |-> task_pc, result |-> mission_result]

\* _cleanup_mission(order_id, drone_id)
cleanup_mission(S, order_id) ==
    LET S1 == [S EXCEPT !.active_missions[order_id] = None]
        S2 == IF S1.mission_tasks[order_id]
              THEN [S1 EXCEPT !.task_cancel[order_id] =
                                  IF S1.task_pc[order_id] \in TaskEnded THEN @ ELSE TRUE,
                              !.mission_tasks[order_id] = FALSE]
              ELSE S1
    IN release_drone_from_order(S2, order_id)

\* the finally clause of _execute_mission_for_drone, which ends the task
Finish(S, order_id, how) ==
    [cleanup_mission(S, order_id) EXCEPT !.task_pc[order_id] = how]

Fail(S, order_id, drone_id, why) ==
    Finish([update_drone_status(S, drone_id, ERROR, "task")
               EXCEPT !.result[order_id] = why],
           order_id, "done")

\* a plausible slip: completion does not set RETURNING
MissionCompleteNoReturning(S, order_id, drone_id, why) ==
    [S EXCEPT !.task_pc[order_id] = "settle", !.result[order_id] = why]

\* _is_mission_complete_on_drone returned True: RETURNING, then sleep(5.0)
MissionComplete(S, order_id, drone_id, why) ==
    [update_drone_status(S, drone_id, RETURNING, "task")
        EXCEPT !.task_pc[order_id] = "settle", !.result[order_id] = why]

\* _monitor_mission_progress from the head of its loop to the next await
MonitorLoop(S, order_id, drone_id) ==
    IF S.active_missions[order_id] = None THEN Finish(S, order_id, "done")
    ELSE IF ~mavsdk THEN [S EXCEPT !.task_pc[order_id] = "sim_check"]
    ELSE IF ~S.drones[drone_id].is_connected
    THEN \* _is_mission_complete_on_drone returns True for a lost connection
         MissionComplete(S, order_id, drone_id, "link_lost")
    ELSE [S EXCEPT !.task_pc[order_id] = "progress"]

\* from the successful upload to the next await
AfterUpload(S, order_id, drone_id) ==
    LET S1 == update_drone_status(S, drone_id, IN_FLIGHT, "task")
    IN IF ~mavsdk
       THEN MonitorLoop(update_drone_status(S1, drone_id, MISSION_ACTIVE, "task"),
                        order_id, drone_id)
       ELSE IF ~S1.drones[drone_id].is_connected
       THEN Fail(S1, order_id, drone_id, "start_failed")
       ELSE [S1 EXCEPT !.task_pc[order_id] = "arm"]

\* from the first line of _execute_mission_for_drone to the next await
BeginMission(S, order_id, drone_id) ==
    LET S1 == update_drone_status(S, drone_id, ARMED, "task")
    IN IF ~mavsdk THEN AfterUpload(S1, order_id, drone_id)
       ELSE IF ~S1.drones[drone_id].is_connected
       THEN Fail(S1, order_id, drone_id, "upload_failed")
       ELSE [S1 EXCEPT !.task_pc[order_id] = "upload"]

\* abort_mission(order_id) from the status update on
AbortNow(S, order_id, drone_id) ==
    cleanup_mission(update_drone_status(S, drone_id, RETURNING, "abort"), order_id)

\* execute_order_mission(order) -> bool
execute_order_mission(S, order_id) ==
    LET drone_id == get_available_drone(S.drones)
    IN IF drone_id = None THEN [S |-> S, ret |-> FALSE]
       ELSE IF ~assign_order_to_drone(S, order_id, drone_id).ret
       THEN [S |-> S, ret |-> FALSE]
       ELSE [S |-> [assign_order_to_drone(S, order_id, drone_id).S EXCEPT
                       !.mission_tasks[order_id] = TRUE,
                       !.task_pc[order_id] = "created",
                       !.active_missions[order_id] = drone_id],
             ret |-> TRUE]

\* shutdown(): cancel every task that is not done, clear both maps
runner_shutdown(S) ==
    [S EXCEPT !.task_cancel = [o \in Orders |->
                                  IF S.mission_tasks[o] /\ S.task_pc[o] \notin TaskEnded
                                  THEN TRUE ELSE S.task_cancel[o]],
              !.active_missions = [o \in Orders |-> None],
              !.mission_tasks = [o \in Orders |-> FALSE]]

MissionCommit(S) ==
    /\ FleetCommit(S)
    /\ active_missions' = S.active_missions
    /\ mission_tasks' = S.mission_tasks
    /\ task_cancel' = S.task_cancel
    /\ task_pc' = S.task_pc
    /\ mission_result' = S.result

\* ---- the steps of the mission task of order o
TaskRuns(o, at) == task_pc[o] = at /\ ~task_cancel[o]

TaskStart(o) ==
    /\ TaskRuns(o, "created")
    /\ MissionCommit(BeginMission(MissionState, o, task_drone[o]))
    /\ UNCHANGED <<mavsdk, conn_task, task_drone, abort_pc, aborted, sched_vars, pool_vars, telemetry_vars, service_vars>>

TaskUploadDone(o) ==
    /\ TaskRuns(o, "upload")
    /\ \E ok \in BOOLEAN :
          MissionCommit(IF ok THEN AfterUpload(MissionState, o, task_drone[o])
                        ELSE Fail(MissionState, o, task_drone[o], "upload_failed"))
    /\ UNCHANGED <<mavsdk, conn_task, task_drone, abort_pc, aborted, sched_vars, pool_vars, telemetry_vars, service_vars>>

TaskArmDone(o) ==
    /\ TaskRuns(o, "arm")
    /\ \E ok \in BOOLEAN :
          MissionCommit(IF ok THEN [MissionState EXCEPT !.task_pc[o] = "start"]
                        ELSE Fail(MissionState, o, task_drone[o], "start_failed"))
    /\ UNCHANGED <<mavsdk, conn_task, task_drone, abort_pc, aborted, sched_vars, pool_vars, telemetry_vars, service_vars>>

TaskStartDone(o) ==
    /\ TaskRuns(o, "start")
    /\ \E ok \in BOOLEAN :
          MissionCommit(
            IF ok
            THEN MonitorLoop(update_drone_status(MissionState, task_drone[o],
                                                 MISSION_ACTIVE, "task"),
                             o, task_drone[o])
            ELSE Fail(MissionState, o, task_drone[o], "start_failed"))
    /\ UNCHANGED <<mavsdk, conn_task, task_drone, abort_pc, aborted, sched_vars, pool_vars, telemetry_vars, service_vars>>

\* mission_progress answered: current = total > 0, or not, or the query raised
TaskProgressDone(o) ==
    /\ TaskRuns(o, "progress")
    /\ \E answer \in {"complete", "incomplete", "raised"} :
          MissionCommit(
            IF answer = "incomplete"
            THEN [MissionState EXCEPT !.task_pc[o] =
                     IF drones[task_drone[o]].is_connected THEN "position"
                     ELSE "poll_sleep"]
            ELSE MissionComplete(MissionState, o, task_drone[o],
                                 IF answer = "complete" THEN "complete"
                                 ELSE "progress_error"))
    /\ UNCHANGED <<mavsdk, conn_task, task_drone, abort_pc, aborted, sched_vars, pool_vars, telemetry_vars, service_vars>>

\* simulation: the check sleeps and returns False, the position needs no await
TaskSimCheckDone(o) ==
    /\ TaskRuns(o, "sim_check")
    /\ MissionCommit([MissionState EXCEPT !.task_pc[o] = "poll_sleep"])
    /\ UNCHANGED <<mavsdk, conn_task, task_drone, abort_pc, aborted, sched_vars, pool_vars, telemetry_vars, service_vars>>

TaskPositionDone(o) ==
    /\ TaskRuns(o, "position")
    /\ MissionCommit([MissionState EXCEPT !.task_pc[o] = "poll_sleep"])
    /\ UNCHANGED <<mavsdk, conn_task, task_drone, abort_pc, aborted, sched_vars, pool_vars, telemetry_vars, service_vars>>

TaskPollWake(o) ==
    /\ TaskRuns(o, "poll_sleep")
    /\ MissionCommit(MonitorLoop(MissionState, o, task_drone[o]))
    /\ UNCHANGED <<mavsdk, conn_task, task_drone, abort_pc, aborted, sched_vars, pool_vars, telemetry_vars, service_vars>>

TaskSettleDone(o) ==
    /\ TaskRuns(o, "settle")
    /\ MissionCommit(Finish(MissionState, o, "done"))
    /\ UNCHANGED <<mavsdk, conn_task, task_drone, abort_pc, aborted, sched_vars, pool_vars, telemetry_vars, service_vars>>

\* CancelledError raised at the await the task is suspended in: no except
\* clause catches it, the finally clause runs
TaskCancelled(o) ==
    /\ task_pc[o] \in TaskAwaits
    /\ task_cancel[o]
    /\ MissionCommit(Finish(MissionState, o, "cancelled"))
    /\ UNCHANGED <<mavsdk, conn_task, task_drone, abort_pc, aborted, sched_vars, pool_vars, telemetry_vars, service_vars>>

\* a task cancelled before its first step never enters its try block
TaskCancelledUnstarted(o) ==
    /\ task_pc[o] = "created"
    /\ task_cancel[o]
    /\ MissionCommit([MissionState EXCEPT !.task_pc[o] = "cancelled"])
    /\ UNCHANGED <<mavsdk, conn_task, task_drone, abort_pc, aborted, sched_vars, pool_vars, telemetry_vars, service_vars>>

\* ---- abort_mission(order_id) called from outside (POST .../abort)
\* a variant of abort_mission that, finding no active mission of the order,
\* turns to the first drone of the fleet
abort_mission_first_drone(S, order_id) ==
    IF S.active_missions[order_id] = None /\ DOMAIN S.drones = {}
    THEN [S |-> S, ret |-> FALSE]
    ELSE [S |-> AbortNow(S, order_id,
                         IF S.active_missions[order_id] = None
                         THEN MinOf(DOMAIN S.drones)
                         ELSE S.active_missions[order_id]),
          ret |-> TRUE]

\* abort_mission(order_id) -> bool, when it is not suspended in
\* return_to_launch
abort_mission(S, order_id) ==
    IF S.active_missions[order_id] = None THEN [S |-> S, ret |-> FALSE]
    ELSE [S |-> AbortNow(S, order_id, S.active_missions[order_id]), ret |-> TRUE]

\* abort_mission(order_id) called for an order that is not in
\* active_missions (the call is not counted in requests)
AbortCallNoMission(o) ==
    /\ abort_pc[o] = "idle"
    /\ active_missions[o] = None
    /\ MissionCommit(abort_mission(MissionState, o).S)
    /\ UNCHANGED <<mavsdk, conn_task, task_drone, abort_pc, aborted, sched_vars, pool_vars, telemetry_vars, service_vars>>

AbortPhase(o) == IF task_pc[o] \in TaskExecuting THEN "executing" ELSE "other"

AbortCall(o) ==
    /\ abort_pc[o] = "idle"
    /\ active_missions[o] # None
    /\ requests < MaxRequests
    /\ requests' = requests + 1
    /\ IF mavsdk /\ drones[active_missions[o]].is_connected
       THEN /\ abort_pc' = [abort_pc EXCEPT ![o] = AbortPhase(o)]
            /\ MissionCommit(MissionState)
            /\ UNCHANGED aborted
       ELSE /\ MissionCommit(AbortNow(MissionState, o, active_missions[o]))
            /\ aborted' = [aborted EXCEPT ![o] = AbortPhase(o)]
            /\ UNCHANGED abort_pc
    /\ UNCHANGED <<mavsdk, conn_task, task_drone, order_vars, pool_vars, telemetry_vars, service_vars>>

\* return_to_launch answered: on an exception abort_mission returns False
AbortRtlDone(o) ==
    /\ abort_pc[o] # "idle"
    /\ abort_pc' = [abort_pc EXCEPT ![o] = "idle"]
    /\ \E ok \in BOOLEAN :
          IF ok
          THEN /\ MissionCommit(AbortNow(MissionState, o, task_drone[o]))
               /\ aborted' = [aborted EXCEPT ![o] = abort_pc[o]]
          ELSE /\ MissionCommit(MissionState)
               /\ UNCHANGED aborted
    /\ UNCHANGED <<mavsdk, conn_task, task_drone, sched_vars, pool_vars, telemetry_vars, service_vars>>

\* shutdown()
RunnerShutdown ==
    /\ \E o \in Orders : mission_tasks[o]
    /\ requests < MaxRequests
    /\ requests' = requests + 1
    /\ MissionCommit(runner_shutdown(MissionState))
    /\ UNCHANGED <<mavsdk, conn_task, task_drone, abort_pc, aborted, order_vars, pool_vars, telemetry_vars, service_vars>>

\* POST /drones/{drone_id}/status: update_drone_status with any status
RequestStatus(d, s) ==
    /\ d \in DOMAIN drones
    /\ requests < MaxRequests
    /\ requests' = requests + 1
    /\ FleetCommit(update_drone_status(FleetState, d, s, "request"))
    /\ UNCHANGED <<mavsdk, conn_task, runner_vars, order_vars, pool_vars, telemetry_vars, service_vars>>

\* ======================================================= OrderScheduler
\* Where _monitor_multi_drone_mission(order_id) is (monitor_pc):
\*   "none", "created", "sleep" (the sleep(5) of its loop),
\*   "abort_rtl" (in abort_mission, awaiting return_to_launch),
\*   "fail_rtl" (in _handle_mission_failure, awaiting the single-drone
\*   runner's abort), "done"

\* the latest created_at in the table (0: the table is empty)
Newest == CHOOSE t \in 0..NumOrders :
             /\ \A p \in Orders : created_at[p] <= t
             /\ t = 0 \/ \E p \in Orders : created_at[p] = t

\* a new row of the orders table with the given priority: status pending,
\* created_at the clock's reading, which may equal the one of the row before
CreateOrderWith(o, pr) ==
    /\ order_status[o] = "none"
    /\ order_status' = [order_status EXCEPT ![o] = PENDING]
    /\ job_log' = [job_log EXCEPT ![o] = <<PENDING>>]
    /\ priority' = [priority EXCEPT ![o] = pr]
    /\ \E t \in {Newest, Newest + 1} \ {0} :
          created_at' = [created_at EXCEPT ![o] = t]
    /\ UNCHANGED <<mavsdk, drones, order_assignments, conn_task, unit_trace, runner_vars,
                   current_orders, monitor_pc, monitor_polls, requests, failure_reason,
                   pool_vars, telemetry_vars, service_vars>>

\* a new row with the default priority of OrderCreateRequest
CreateOrder(o) == CreateOrderWith(o, MEDIUM)

\* the orders .filter(status == PENDING).order_by(created_at).limit(1) may return
OldestPending ==
    {o \in Orders : /\ order_status[o] = PENDING
                    /\ \A p \in Orders : order_status[p] = PENDING
                                            => created_at[o] <= created_at[p]}

\* a variant of the cycle without limit(1) and break: after the oldest
\* Pending order a second Pending order is handled in the same run
SchedulerCycleNoLimit ==
    /\ get_available_drone(drones) # None
    /\ \E o \in OldestPending :
          LET r == execute_order_mission(MissionState, o)
              rest == {p \in Orders \ {o} : order_status[p] = PENDING}
              more == IF rest = {} THEN {o} ELSE rest
          IN \E p \in more :
                LET r2 == IF p = o THEN r ELSE execute_order_mission(r.S, p)
                    ok(x) == (x = o /\ r.ret) \/ (x = p /\ r2.ret)
                    taken == {o, p}
                IN /\ MissionCommit(r2.S)
                   /\ current_orders' =
                         [x \in Orders |-> IF x \in taken /\ ok(x)
                                           THEN get_drone_for_order(r2.S, x)
                                           ELSE current_orders[x]]
                   /\ task_drone' =
                         [x \in Orders |-> IF x \in taken /\ ok(x)
                                           THEN r2.S.active_missions[x]
                                           ELSE task_drone[x]]
                   /\ order_status' =
                         [x \in Orders |-> IF x \notin taken THEN order_status[x]
                                           ELSE IF ok(x) THEN ORDER_IN_FLIGHT
                                           ELSE FAILED]
                   /\ job_log' =
                         [x \in Orders |-> IF x \notin taken THEN job_log[x]
                                           ELSE IF ok(x)
                                           THEN job_log[x] \o <<SCHEDULED, ORDER_IN_FLIGHT>>
                                           ELSE job_log[x] \o <<SCHEDULED, FAILED>>]
                   /\ monitor_pc' =
                         [x \in Orders |-> IF x \in taken /\ ok(x) THEN "created"
                                           ELSE monitor_pc[x]]
    /\ UNCHANGED <<mavsdk, conn_task, abort_pc, aborted, created_at, monitor_polls,
                   requests, failure_reason, priority, pool_vars, telemetry_vars, service_vars>>

\* one run of _process_pending_orders_multi_drone: no await suspends it
SchedulerCycle ==
    /\ get_available_drone(drones) # None
    /\ \E o \in OldestPending :
          LET r == execute_order_mission(MissionState, o)
          IN /\ MissionCommit(r.S)
             /\ IF r.ret
                THEN /\ current_orders' = [current_orders EXCEPT ![o] =
                                              get_drone_for_order(r.S, o)]
                     /\ task_drone' = [task_drone EXCEPT ![o] = r.S.active_missions[o]]
                     /\ order_status' = [order_status EXCEPT ![o] = ORDER_IN_FLIGHT]
                     /\ job_log' = [job_log EXCEPT ![o] =
                                       @ \o <<SCHEDULED, ORDER_IN_FLIGHT>>]
                     /\ monitor_pc' = [monitor_pc EXCEPT ![o] = "created"]
                ELSE \* _handle_mission_failure (its abort of the single-drone
                     \* runner changes nothing modelled here)
                     /\ order_status' = [order_status EXCEPT ![o] = FAILED]
                     /\ job_log' = [job_log EXCEPT ![o] = @ \o <<SCHEDULED, FAILED>>]
                     /\ UNCHANGED <<current_orders, task_drone, monitor_pc>>
    /\ UNCHANGED <<mavsdk, conn_task, abort_pc, aborted, created_at, monitor_polls,
                   requests, failure_reason, priority,
                   pool_vars, telemetry_vars, service_vars>>

\* a run of _process_pending_orders_multi_drone that returns early: no
\* drone is available, or the query for the oldest pending order is empty
SchedulerCycleSkip ==
    /\ \/ get_available_drone(drones) = None
       \/ OldestPending = {}
    /\ UNCHANGED <<pool_vars, fleet_vars, mission_vars, telemetry_vars, service_vars>>

\* a run of _process_pending_orders_multi_drone in which the awaited
\* execute_order_mission answers False: the scheduler's code handles that
\* answer whether or not the executor of this build can give it, so the
\* answer is an input here
SchedulerCycleRejected ==
    /\ get_available_drone(drones) # None
    /\ \E o \in OldestPending :
          \* SCHEDULED is committed, then _handle_mission_failure
          /\ order_status' = [order_status EXCEPT ![o] = FAILED]
          /\ job_log' = [job_log EXCEPT ![o] = @ \o <<SCHEDULED, FAILED>>]
    /\ UNCHANGED <<fleet_vars, runner_vars, created_at, current_orders, monitor_pc,
                   monitor_polls, requests, failure_reason, priority,
                   pool_vars, telemetry_vars, service_vars>>

\* elapsed > timeout_seconds, the clock counted in polls of 5 seconds
TimedOut(o) == monitor_polls[o] >= MonitorTimeoutPolls

\* _update_order_status(order_id, status): the row's status (and updated_at)
\* is written, no other column of the row is
WriteOrder(o, status) ==
    /\ order_status' = [order_status EXCEPT ![o] = status]
    /\ job_log' = [job_log EXCEPT ![o] = Append(@, status)]

\* _handle_mission_failure(order_id, reason): the reason is only logged; the
\* abort of the single-drone runner may await its return_to_launch
HandleFailure(o) ==
    \E waits \in (IF mavsdk THEN BOOLEAN ELSE {FALSE}) :
       IF waits
       THEN /\ monitor_pc' = [monitor_pc EXCEPT ![o] = "fail_rtl"]
            /\ UNCHANGED <<order_status, job_log>>
       ELSE /\ monitor_pc' = [monitor_pc EXCEPT ![o] = "done"]
            /\ WriteOrder(o, FAILED)

\* one iteration of the loop of _monitor_multi_drone_mission; the event
\* loop runs ready tasks in the order of their creation, so the monitor's
\* first step comes after the first step of the mission task
MonitorPoll(o) ==
    /\ monitor_pc[o] \in {"created", "sleep"}
    /\ monitor_pc[o] = "created" => task_pc[o] # "created"
    /\ IF current_orders[o] = None
       THEN /\ monitor_pc' = [monitor_pc EXCEPT ![o] = "done"]
            /\ MissionCommit(MissionState)
            /\ UNCHANGED <<order_status, job_log, current_orders, monitor_polls>>
       ELSE IF active_missions[o] = None
       THEN \* _handle_multi_drone_mission_completion
            /\ WriteOrder(o, COMPLETED)
            /\ current_orders' = [current_orders EXCEPT ![o] = None]
            /\ monitor_pc' = [monitor_pc EXCEPT ![o] = "done"]
            /\ MissionCommit(MissionState)
            /\ UNCHANGED monitor_polls
       ELSE IF TimedOut(o)
       THEN IF mavsdk /\ drones[active_missions[o]].is_connected
            THEN /\ monitor_pc' = [monitor_pc EXCEPT ![o] = "abort_rtl"]
                 /\ MissionCommit(MissionState)
                 /\ UNCHANGED <<order_status, job_log, current_orders, monitor_polls>>
            ELSE /\ MissionCommit(AbortNow(MissionState, o, active_missions[o]))
                 /\ HandleFailure(o)
                 /\ UNCHANGED <<current_orders, monitor_polls>>
       ELSE /\ monitor_pc' = [monitor_pc EXCEPT ![o] = "sleep"]
            /\ monitor_polls' = [monitor_polls EXCEPT ![o] = @ + 1]
            /\ MissionCommit(MissionState)
            /\ UNCHANGED <<order_status, job_log, current_orders>>
    /\ UNCHANGED <<mavsdk, conn_task, task_drone, abort_pc, aborted, created_at,
                   requests, failure_reason, priority,
                   pool_vars, telemetry_vars, service_vars>>

\* force_complete_order(order_id): _handle_mission_completion writes
\* COMPLETED to the row, whatever its status
ForceCompleteOrder(o) ==
    /\ order_status[o] # "none"
    /\ requests < MaxRequests
    /\ requests' = requests + 1
    /\ WriteOrder(o, COMPLETED)
    /\ UNCHANGED <<fleet_vars, runner_vars, created_at, current_orders, monitor_pc,
                   monitor_polls, failure_reason, priority,
                   pool_vars, telemetry_vars, service_vars>>

\* force_fail_order(order_id, reason): _handle_mission_failure writes FAILED
\* to the row, whatever its status (its abort of the single-drone runner
\* changes nothing modelled here)
ForceFailOrder(o) ==
    /\ order_status[o] # "none"
    /\ requests < MaxRequests
    /\ requests' = requests + 1
    /\ WriteOrder(o, FAILED)
    /\ UNCHANGED <<fleet_vars, runner_vars, created_at, current_orders, monitor_pc,
                   monitor_polls, failure_reason, priority,
                   pool_vars, telemetry_vars, service_vars>>

\* the monitor's abort_mission resumes after return_to_launch
MonitorAbortRtlDone(o) ==
    /\ monitor_pc[o] = "abort_rtl"
    /\ \E ok \in BOOLEAN :
          MissionCommit(IF ok THEN AbortNow(MissionState, o, task_drone[o])
                        ELSE MissionState)
    /\ HandleFailure(o)
    /\ UNCHANGED <<mavsdk, conn_task, task_drone, abort_pc, aborted, created_at, current_orders,
                   monitor_polls, requests, failure_reason, priority,
                   pool_vars, telemetry_vars, service_vars>>

MonitorFailRtlDone(o) ==
    /\ monitor_pc[o] = "fail_rtl"
    /\ monitor_pc' = [monitor_pc EXCEPT ![o] = "done"]
    /\ WriteOrder(o, FAILED)
    /\ MissionCommit(MissionState)
    /\ UNCHANGED <<mavsdk, conn_task, task_drone, abort_pc, aborted, created_at,
                   current_orders, monitor_polls, requests, failure_reason, priority,
                   pool_vars, telemetry_vars, service_vars>>

MissionInit ==
    /\ active_missions = [o \in Orders |-> None]
    /\ mission_tasks = [o \in Orders |-> FALSE]
    /\ task_pc = [o \in Orders |-> "none"]
    /\ task_cancel = [o \in Orders |-> FALSE]
    /\ task_drone = [o \in Orders |-> None]
    /\ mission_result = [o \in Orders |-> "none"]
    /\ abort_pc = [o \in Orders |-> "idle"]
    /\ aborted = [o \in Orders |-> "no"]
    /\ order_status = [o \in Orders |-> "none"]
    /\ created_at = [o \in Orders |-> 0]
    /\ current_orders = [o \in Orders |-> None]
    /\ monitor_pc = [o \in Orders |-> "none"]
    /\ monitor_polls = [o \in Orders |-> 0]
    /\ job_log = [o \in Orders |-> <<>>]
    /\ failure_reason = [o \in Orders |-> ""]
    /\ priority = [o \in Orders |-> "none"]
    /\ requests = 0

\* ======================================= MultiDroneTelemetryAggregator
\* a task of _telemetry_monitoring_loop: "none" (no such task), "head" (it
\* is created or asleep and tests is_monitoring next), "collect" (it awaits
\* _collect_drone_telemetry for `drone`, having read `time` from the clock)
NoTask == [pc |-> "none", drone |-> None, time |-> 0]
HeadTask == [pc |-> "head", drone |-> None, time |-> 0]

\* __init__: not monitoring, no history, no health record, no loop task;
\* nothing has been handed to the fleet callbacks (fleet_data is <<>> until
\* the first hand-over)
TelemetryNew ==
    /\ is_monitoring = FALSE
    /\ loop_tasks = [telemetry |-> [i \in 1..MaxLoops |-> NoTask],
                     health |-> 0, fleet |-> 0]
    /\ clock = 0
    /\ drone_telemetry_history = [d \in {} |-> <<>>]
    /\ drone_health_status = [d \in {} |-> <<>>]
    /\ fleet_data = <<>>

FreeTelemetrySlots == {i \in 1..MaxLoops : loop_tasks.telemetry[i].pc = "none"}

\* start_monitoring(): returns at once when already monitoring; otherwise
\* sets the flag and creates one task per loop
StartMonitoring ==
    /\ \/ is_monitoring
       \/ /\ FreeTelemetrySlots # {}
          /\ loop_tasks.health < MaxLoops
          /\ loop_tasks.fleet < MaxLoops
    /\ is_monitoring' = TRUE
    /\ loop_tasks' = IF is_monitoring THEN loop_tasks
                     ELSE [telemetry |-> [loop_tasks.telemetry EXCEPT
                                             ![MinOf(FreeTelemetrySlots)] = HeadTask],
                           health |-> loop_tasks.health + 1,
                           fleet |-> loop_tasks.fleet + 1]
    /\ UNCHANGED <<clock, drone_telemetry_history, drone_health_status, fleet_data,
                   service_vars, pool_vars, fleet_vars, mission_vars>>

\* stop_monitoring(): clears the flag; no task is cancelled
StopMonitoring ==
    /\ is_monitoring
    /\ is_monitoring' = FALSE
    /\ UNCHANGED <<loop_tasks, clock, drone_telemetry_history, drone_health_status,
                   fleet_data, service_vars, pool_vars, fleet_vars, mission_vars>>

\* the history after an entry of `timestamp` is stored for drone_id: append,
\* then keep the last max_history_length entries
AppendTelemetry(history, drone_id, timestamp) ==
    LET old == IF drone_id \in DOMAIN history THEN history[drone_id] ELSE <<>>
        new == Append(old, timestamp)
        kept == IF Len(new) > MaxHistoryLength
                THEN SubSeq(new, Len(new) - MaxHistoryLength + 1, Len(new))
                ELSE new
    IN  [d \in DOMAIN history \cup {drone_id} |->
            IF d = drone_id THEN kept ELSE history[d]]

\* the for loop of _telemetry_monitoring_loop from drone_id on, with
\* current_time read before: an unconnected drone is passed over; for a
\* connected one _collect_drone_telemetry is awaited, which suspends the
\* loop in the MAVSDK build (wait = that drone) and answers at once in the
\* simulation build
RECURSIVE CollectFrom(_, _, _)
CollectFrom(history, drone_id, current_time) ==
    IF drone_id \notin DOMAIN drones THEN [history |-> history, wait |-> None]
    ELSE IF ~drones[drone_id].is_connected
    THEN CollectFrom(history, drone_id + 1, current_time)
    ELSE IF mavsdk THEN [history |-> history, wait |-> drone_id]
    ELSE CollectFrom(AppendTelemetry(history, drone_id, current_time),
                     drone_id + 1, current_time)

\* the task's record after the for loop ran to `r`
TelemetryTaskAfter(r, current_time) ==
    IF r.wait = None THEN HeadTask
    ELSE [pc |-> "collect", drone |-> r.wait, time |-> current_time]

\* one pass of task i of _telemetry_monitoring_loop through the head of its
\* while loop with monitoring on: the clock is read and the for loop runs
\* up to its first suspension or to the sleep
TelemetryIteration(i) ==
    /\ loop_tasks.telemetry[i].pc = "head"
    /\ is_monitoring
    /\ clock < MaxTicks
    /\ clock' = clock + 1
    /\ LET r == CollectFrom(drone_telemetry_history, 1, clock + 1)
       IN /\ drone_telemetry_history' = r.history
          /\ loop_tasks' = [loop_tasks EXCEPT
                               !.telemetry[i] = TelemetryTaskAfter(r, clock + 1)]
    /\ UNCHANGED <<is_monitoring, drone_health_status, fleet_data,
                   service_vars, pool_vars, fleet_vars, mission_vars>>

\* _collect_drone_telemetry returns to task i: with telemetry (got) the
\* entry is stored, with None it is not; the for loop goes on
TelemetryCollectDone(i, got) ==
    /\ loop_tasks.telemetry[i].pc = "collect"
    /\ LET t == loop_tasks.telemetry[i].time
           d == loop_tasks.telemetry[i].drone
           h == IF got THEN AppendTelemetry(drone_telemetry_history, d, t)
                ELSE drone_telemetry_history
           r == CollectFrom(h, d + 1, t)
       IN /\ drone_telemetry_history' = r.history
          /\ loop_tasks' = [loop_tasks EXCEPT !.telemetry[i] = TelemetryTaskAfter(r, t)]
    /\ UNCHANGED <<is_monitoring, clock, drone_health_status, fleet_data,
                   service_vars, pool_vars, fleet_vars, mission_vars>>

\* a variant in which the exception leaves the while loop: the task ends
TelemetryIterationRaisesEnds(i) ==
    /\ loop_tasks.telemetry[i].pc \in {"head", "collect"}
    /\ loop_tasks.telemetry[i].pc = "head" => is_monitoring
    /\ loop_tasks' = [loop_tasks EXCEPT !.telemetry[i] = NoTask]
    /\ UNCHANGED <<is_monitoring, clock, drone_telemetry_history, drone_health_status,
                   fleet_data, service_vars, pool_vars, fleet_vars, mission_vars>>

\* an iteration of task i raises (the for loop over fleet_manager.drones
\* finds the dict changed, a history operation fails): the except clause
\* logs and sleeps, the task stays
TelemetryIterationRaises(i) ==
    /\ loop_tasks.telemetry[i].pc \in {"head", "collect"}
    /\ loop_tasks.telemetry[i].pc = "head" => is_monitoring
    /\ loop_tasks' = [loop_tasks EXCEPT !.telemetry[i] = HeadTask]
    /\ UNCHANGED <<is_monitoring, clock, drone_telemetry_history, drone_health_status,
                   fleet_data, service_vars, pool_vars, fleet_vars, mission_vars>>

\* task i of _telemetry_monitoring_loop finds is_monitoring false and returns
TelemetryLoopExit(i) ==
    /\ loop_tasks.telemetry[i].pc = "head"
    /\ ~is_monitoring
    /\ loop_tasks' = [loop_tasks EXCEPT !.telemetry[i] = NoTask]
    /\ UNCHANGED <<is_monitoring, clock, drone_telemetry_history, drone_health_status,
                   fleet_data, service_vars, pool_vars, fleet_vars, mission_vars>>

\* a task of _health_monitoring_loop finds is_monitoring false and returns
HealthLoopExit ==
    /\ loop_tasks.health > 0
    /\ ~is_monitoring
    /\ loop_tasks' = [loop_tasks EXCEPT !.health = @ - 1]
    /\ UNCHANGED <<is_monitoring, clock, drone_telemetry_history, drone_health_status,
                   fleet_data, service_vars, pool_vars, fleet_vars, mission_vars>>

\* a task of _fleet_aggregation_loop finds is_monitoring false and returns
FleetLoopExit ==
    /\ loop_tasks.fleet > 0
    /\ ~is_monitoring
    /\ loop_tasks' = [loop_tasks EXCEPT !.fleet = @ - 1]
    /\ UNCHANGED <<is_monitoring, clock, drone_telemetry_history, drone_health_status,
                   fleet_data, service_vars, pool_vars, fleet_vars, mission_vars>>

\* a variant of _assess_drone_health in which stale or missing telemetry
\* also marks the drone unhealthy
assess_drone_health_stale_unhealthy(history, drone_id, drone_info, current_time) ==
    LET known == drone_id \in DOMAIN history
        entries == IF known THEN history[drone_id] ELSE <<>>
        last_telemetry == IF entries # <<>> THEN entries[Len(entries)] ELSE None
        stale == entries # <<>> /\ current_time - last_telemetry > 10
        telemetry == IF ~known THEN <<"No telemetry history">>
                     ELSE IF entries = <<>> THEN <<"No telemetry data available">>
                     ELSE IF stale THEN <<"Stale telemetry">>
                     ELSE <<>>
        state == IF drone_info.status = ERROR THEN <<"Drone in error state">>
                 ELSE IF drone_info.status = OFFLINE THEN <<"Drone offline">>
                 ELSE <<>>
    IN  [is_healthy |-> /\ ~(drone_info.battery_level < 10)
                        /\ drone_info.is_connected
                        /\ drone_info.status # ERROR
                        /\ drone_info.status # OFFLINE
                        /\ telemetry = <<>>,
         battery_level |-> drone_info.battery_level,
         connection_status |-> IF drone_info.is_connected THEN "connected"
                               ELSE "disconnected",
         last_update |-> IF stale THEN last_telemetry ELSE current_time,
         warning_messages |->
             (IF drone_info.battery_level < 20 THEN <<"Low battery">> ELSE <<>>)
             \o telemetry,
         error_messages |->
             (IF drone_info.battery_level < 10 THEN <<"Critical battery">> ELSE <<>>)
             \o (IF ~drone_info.is_connected THEN <<"Drone not connected">> ELSE <<>>)
             \o state]

\* _assess_drone_health(drone_id, drone_info, current_time) on the history
\* `history`; battery in percent, times in seconds, the messages without
\* their formatted numbers
assess_drone_health(history, drone_id, drone_info, current_time) ==
    LET low == IF drone_info.battery_level < 20 THEN <<"Low battery">> ELSE <<>>
        critical == IF drone_info.battery_level < 10
                    THEN <<"Critical battery">> ELSE <<>>
        unconnected == IF ~drone_info.is_connected
                       THEN <<"Drone not connected">> ELSE <<>>
        known == drone_id \in DOMAIN history
        entries == IF known THEN history[drone_id] ELSE <<>>
        last_telemetry == IF entries # <<>> THEN entries[Len(entries)] ELSE None
        stale == entries # <<>> /\ current_time - last_telemetry > 10
        telemetry == IF ~known THEN <<"No telemetry history">>
                     ELSE IF entries = <<>> THEN <<"No telemetry data available">>
                     ELSE IF stale THEN <<"Stale telemetry">>
                     ELSE <<>>
        state == IF drone_info.status = ERROR THEN <<"Drone in error state">>
                 ELSE IF drone_info.status = OFFLINE THEN <<"Drone offline">>
                 ELSE <<>>
    IN  [is_healthy |-> /\ ~(drone_info.battery_level < 10)
                        /\ drone_info.is_connected
                        /\ drone_info.status # ERROR
                        /\ drone_info.status # OFFLINE,
         battery_level |-> drone_info.battery_level,
         connection_status |-> IF drone_info.is_connected THEN "connected"
                               ELSE "disconnected",
         last_update |-> IF stale THEN last_telemetry ELSE current_time,
         warning_messages |-> low \o telemetry,
         error_messages |-> critical \o unconnected \o state]

\* one iteration of _health_monitoring_loop at time current_time: every drone
\* of the fleet is assessed and its record replaced
HealthMonitoringIteration(current_time) ==
    /\ loop_tasks.health > 0
    /\ is_monitoring
    /\ drone_health_status' =
          [d \in DOMAIN drone_health_status \cup DOMAIN drones |->
              IF d \in DOMAIN drones
              THEN assess_drone_health(drone_telemetry_history, d, drones[d],
                                       current_time)
              ELSE drone_health_status[d]]
    /\ UNCHANGED <<is_monitoring, loop_tasks, clock, drone_telemetry_history, fleet_data,
                   service_vars, pool_vars, fleet_vars, mission_vars>>

\* an iteration of _health_monitoring_loop raises after the first k drones
\* were assessed: the except clause logs and sleeps, the task stays
HealthIterationRaises(current_time, k) ==
    /\ loop_tasks.health > 0
    /\ is_monitoring
    /\ k < Cardinality(DOMAIN drones)
    /\ drone_health_status' =
          [d \in DOMAIN drone_health_status \cup (DOMAIN drones \cap 1..k) |->
              IF d \in DOMAIN drones /\ d <= k
              THEN assess_drone_health(drone_telemetry_history, d, drones[d],
                                       current_time)
              ELSE drone_health_status[d]]
    /\ UNCHANGED <<is_monitoring, loop_tasks, clock, drone_telemetry_history, fleet_data,
                   service_vars, pool_vars, fleet_vars, mission_vars>>

\* _aggregate_fleet_telemetry: the counts and the label of FleetTelemetryData
aggregate_fleet_telemetry(ds, missions) ==
    LET total_drones == Cardinality(DOMAIN ds)
        active_drones == Cardinality({d \in DOMAIN ds : ds[d].is_connected})
        missions_in_progress == Cardinality({o \in DOMAIN missions :
                                               missions[o] # None})
    IN  [total_drones |-> total_drones,
         active_drones |-> active_drones,
         missions_in_progress |-> missions_in_progress,
         fleet_status |-> IF missions_in_progress > 0 THEN "active_missions"
                          ELSE IF active_drones = total_drones THEN "all_online"
                          ELSE IF active_drones > 0 THEN "partial_online"
                          ELSE "offline"]

\* one iteration of _fleet_aggregation_loop: aggregate and hand over
FleetAggregationIteration ==
    /\ loop_tasks.fleet > 0
    /\ is_monitoring
    /\ fleet_data' = <<aggregate_fleet_telemetry(drones, active_missions)>>
    /\ UNCHANGED <<is_monitoring, loop_tasks, clock, drone_telemetry_history,
                   drone_health_status, service_vars, pool_vars, fleet_vars, mission_vars>>

\* an iteration of _fleet_aggregation_loop raises, or the aggregation
\* returns None after its own except clause: nothing is handed over, the
\* task sleeps and stays
FleetIterationRaises ==
    /\ loop_tasks.fleet > 0
    /\ is_monitoring
    /\ UNCHANGED <<pool_vars, fleet_vars, mission_vars, telemetry_vars, service_vars>>

\* ============================================ MissionService, MissionQueue
\* no call of execute_mission in progress for a mission
NoExec == [pc |-> "none", left |-> 0, caller |-> "none"]

MissionQueueNew ==
    [high_priority |-> <<>>, medium_priority |-> <<>>, low_priority |-> <<>>,
     scheduled |-> <<>>]

\* an empty missions table, and MissionScheduler.__init__
ServiceNew ==
    /\ mission_db = [m \in Missions |-> "none"]
    /\ exec_task = [m \in Missions |-> NoExec]
    /\ mission_queue = MissionQueueNew
    /\ mode = SEMI_AUTO
    /\ is_running = FALSE
    /\ loop_await = 0
    /\ queue_ret = [op |-> "none", mission |-> 0, ok |-> FALSE]
    /\ mission_updates = [m \in Missions |-> {}]

scheduler_vars == <<mission_queue, mode, is_running, loop_await, queue_ret, mission_updates>>
other_vars == <<pool_vars, fleet_vars, mission_vars, telemetry_vars>>

SeqRange(s) == {s[i] : i \in 1..Len(s)}

\* create_mission_from_order: the row is inserted with status created
CreateMission(m) ==
    /\ mission_db[m] = "none"
    /\ mission_db' = [mission_db EXCEPT ![m] = CREATED]
    /\ UNCHANGED <<exec_task, scheduler_vars, other_vars>>

\* execute_mission up to its first sleep. A missing row raises and the update
\* in the handler finds no row; a status other than created raises and the
\* handler writes failed; otherwise executing is written and the simulated
\* execution starts.
execute_mission(db, tasks, mission_id, caller) ==
    IF db[mission_id] = "none" THEN [db |-> db, tasks |-> tasks]
    ELSE IF db[mission_id] # CREATED
         THEN [db |-> [db EXCEPT ![mission_id] = FAILED], tasks |-> tasks]
         ELSE [db |-> [db EXCEPT ![mission_id] = EXECUTING],
               tasks |-> [tasks EXCEPT ![mission_id] =
                             [pc |-> "running", left |-> NumWaypoints,
                              caller |-> caller]]]

\* POST /missions/{id}/execute
ExecuteMission(m) ==
    LET r == execute_mission(mission_db, exec_task, m, "api") IN
    /\ mission_db' = r.db
    /\ exec_task' = r.tasks
    /\ UNCHANGED <<scheduler_vars, other_vars>>

\* abort_mission: only an executing or uploaded mission; any other raises
AbortMission(m) ==
    /\ mission_db[m] # "none"
    /\ mission_db' = IF mission_db[m] \in {EXECUTING, UPLOADED}
                     THEN [mission_db EXCEPT ![m] = ABORTED]
                     ELSE mission_db
    /\ UNCHANGED <<exec_task, scheduler_vars, other_vars>>

\* _check_mission_completion: missions whose row is terminal leave scheduled
check_mission_completion(q, db) ==
    [q EXCEPT !.scheduled =
        SelectSeq(q.scheduled, LAMBDA x : db[x] \notin {COMPLETED, FAILED, ABORTED})]

\* the orders a sort by score can give a list (the score is computed from
\* mission data and the time of the call)
SortOrders(s) ==
    {t \in [1..Len(s) -> SeqRange(s)] : SeqRange(t) = SeqRange(s)}

\* _sort_mission_queues: each priority list is sorted by itself
sort_mission_queues(q) ==
    {[high_priority |-> h, medium_priority |-> m, low_priority |-> l,
      scheduled |-> q.scheduled] :
        h \in SortOrders(q.high_priority),
        m \in SortOrders(q.medium_priority),
        l \in SortOrders(q.low_priority)}

\* what follows _process_mission_queue in one pass of _scheduler_loop
RestOfIteration(q, db) == sort_mission_queues(check_mission_completion(q, db))

\* MissionQueue.get_next_mission
get_next_mission_fifo(q) ==
    LET all == q.low_priority \o q.medium_priority \o q.high_priority IN
    IF all = <<>> THEN [ret |-> 0, queue |-> q]
    ELSE IF q.low_priority # <<>>
         THEN [ret |-> Head(q.low_priority),
               queue |-> [q EXCEPT !.low_priority = Tail(@)]]
         ELSE IF q.medium_priority # <<>>
              THEN [ret |-> Head(q.medium_priority),
                    queue |-> [q EXCEPT !.medium_priority = Tail(@)]]
              ELSE [ret |-> Head(q.high_priority),
                    queue |-> [q EXCEPT !.high_priority = Tail(@)]]

get_next_mission(q) ==
    IF q.high_priority # <<>>
    THEN [ret |-> Head(q.high_priority),
          queue |-> [q EXCEPT !.high_priority = Tail(@)]]
    ELSE IF q.medium_priority # <<>>
         THEN [ret |-> Head(q.medium_priority),
               queue |-> [q EXCEPT !.medium_priority = Tail(@)]]
         ELSE IF q.low_priority # <<>>
              THEN [ret |-> Head(q.low_priority),
                    queue |-> [q EXCEPT !.low_priority = Tail(@)]]
              ELSE [ret |-> 0, queue |-> q]

\* MissionQueue.get_queue_status()["total"]
QueueTotal(q) == Len(q.high_priority) + Len(q.medium_priority) + Len(q.low_priority)

\* the missions in one of the three priority lists
Queued(q) ==
    SeqRange(q.high_priority) \cup SeqRange(q.medium_priority)
        \cup SeqRange(q.low_priority)

\* MissionQueue.add_mission
add_mission(q, m, pr) ==
    IF pr = HIGH THEN [q EXCEPT !.high_priority = Append(@, m)]
    ELSE IF pr = LOW THEN [q EXCEPT !.low_priority = Append(@, m)]
    ELSE [q EXCEPT !.medium_priority = Append(@, m)]

\* schedule_mission(mission_data, priority); valid is the result of
\* _validate_mission. Each mission is handed in at most once.
ScheduleMission(m, pr, valid) ==
    /\ "queued" \notin mission_updates[m]
    /\ IF valid /\ QueueTotal(mission_queue) < max_queue_size
       THEN /\ mission_queue' = add_mission(mission_queue, m, pr)
            /\ mission_updates' = [mission_updates EXCEPT ![m] = @ \cup {"queued"}]
            /\ queue_ret' = [op |-> "schedule_mission", mission |-> m, ok |-> TRUE]
       ELSE /\ queue_ret' = [op |-> "schedule_mission", mission |-> m, ok |-> FALSE]
            /\ UNCHANGED <<mission_queue, mission_updates>>
    /\ UNCHANGED <<mission_db, exec_task, mode, is_running, loop_await, other_vars>>

\* one pass of _scheduler_loop up to its sleep or, in full-auto mode, up to
\* the first sleep of the execution it awaits. resources_ok is what
\* _can_execute_mission finds about the drone after _update_resource_status.
SchedulerIteration(resources_ok) ==
    /\ is_running
    /\ loop_await = 0
    /\ IF ~(resources_ok /\ Len(mission_queue.scheduled) < max_concurrent_missions)
       THEN /\ mission_queue' \in RestOfIteration(mission_queue, mission_db)
            /\ UNCHANGED <<mission_db, exec_task, loop_await, queue_ret, mission_updates>>
       ELSE LET next == get_next_mission(mission_queue) IN
            /\ queue_ret' = [op |-> "get_next_mission", mission |-> next.ret,
                             ok |-> next.ret # 0]
            /\ IF next.ret = 0
               THEN /\ mission_queue' \in RestOfIteration(mission_queue, mission_db)
                    /\ UNCHANGED <<mission_db, exec_task, loop_await, mission_updates>>
               ELSE IF mode = FULL_AUTO
               THEN LET r == execute_mission(mission_db, exec_task, next.ret, "loop") IN
                    /\ mission_db' = r.db
                    /\ exec_task' = r.tasks
                    /\ IF r.tasks[next.ret].pc = "running"
                       THEN /\ loop_await' = next.ret
                            /\ mission_queue' = next.queue
                       ELSE /\ loop_await' = 0
                            /\ mission_queue' \in RestOfIteration(next.queue, r.db)
                    /\ UNCHANGED mission_updates
               ELSE /\ mission_updates' =
                        [mission_updates EXCEPT ![next.ret] = @ \cup
                            {IF mode = SEMI_AUTO THEN "approval_request"
                             ELSE "ready_for_manual_execution"}]
                    /\ mission_queue' \in RestOfIteration(next.queue, mission_db)
                    /\ UNCHANGED <<mission_db, exec_task, loop_await>>
    /\ UNCHANGED <<mode, is_running, other_vars>>

\* a sleep of _simulate_mission_execution ends: the progress is written (ok:
\* the write succeeds), and after the last waypoint execute_mission writes
\* completed, or failed when the simulation returned False. The caller
\* _execute_queued_mission then appends a successful mission to scheduled
\* and sends "executing"; the scheduler loop goes on with its pass.
ExecStep(m, ok) ==
    /\ exec_task[m].pc = "running"
    /\ IF ok /\ exec_task[m].left > 1
       THEN /\ exec_task' = [exec_task EXCEPT ![m].left = @ - 1]
            /\ UNCHANGED <<mission_db, scheduler_vars>>
       ELSE LET db2 == [mission_db EXCEPT ![m] = IF ok THEN COMPLETED ELSE FAILED]
                caller == exec_task[m].caller
                q2 == IF ok /\ caller # "api"
                      THEN [mission_queue EXCEPT !.scheduled = Append(@, m)]
                      ELSE mission_queue
            IN
            /\ mission_db' = db2
            /\ exec_task' = [exec_task EXCEPT ![m] = NoExec]
            /\ mission_updates' = IF ok /\ caller # "api"
                                  THEN [mission_updates EXCEPT ![m] = @ \cup {"executing"}]
                                  ELSE mission_updates
            /\ IF caller = "loop"
               THEN /\ mission_queue' \in RestOfIteration(q2, db2)
                    /\ loop_await' = 0
               ELSE /\ mission_queue' = q2
                    /\ UNCHANGED loop_await
            /\ UNCHANGED <<mode, is_running, queue_ret>>
    /\ UNCHANGED other_vars

\* the list the mission is found in by approve_mission, in search order
RemoveFrom(s, m) == SelectSeq(s, LAMBDA x : x # m)

RemoveEverywhere(q, m) ==
    [q EXCEPT !.high_priority = RemoveFrom(@, m),
              !.medium_priority = RemoveFrom(@, m),
              !.low_priority = RemoveFrom(@, m)]

\* approve_mission(mission_id, approved)
ApproveMission(m, approved) ==
    /\ IF approved
       THEN IF m \in Queued(mission_queue)
            THEN LET r == execute_mission(mission_db, exec_task, m, "approve") IN
                 /\ mission_queue' = RemoveEverywhere(mission_queue, m)
                 /\ mission_db' = r.db
                 /\ exec_task' = r.tasks
                 /\ queue_ret' = [op |-> "approve_mission", mission |-> m, ok |-> TRUE]
                 /\ UNCHANGED mission_updates
            ELSE /\ queue_ret' = [op |-> "approve_mission", mission |-> m, ok |-> FALSE]
                 /\ UNCHANGED <<mission_queue, mission_db, exec_task, mission_updates>>
       ELSE /\ mission_queue' = RemoveEverywhere(mission_queue, m)
            /\ mission_updates' = [mission_updates EXCEPT ![m] = @ \cup {"rejected"}]
            /\ queue_ret' = [op |-> "approve_mission", mission |-> m, ok |-> TRUE]
            /\ UNCHANGED <<mission_db, exec_task>>
    /\ UNCHANGED <<mode, is_running, loop_await, other_vars>>

\* set_mode(mode)
SetMode(md) ==
    /\ mode' = md
    /\ UNCHANGED <<mission_db, exec_task, mission_queue, is_running, loop_await,
                   queue_ret, mission_updates, other_vars>>

\* clear_queue()
ClearQueue ==
    /\ mission_queue' = MissionQueueNew
    /\ UNCHANGED <<mission_db, exec_task, mode, is_running, loop_await,
                   queue_ret, mission_updates, other_vars>>

\* MissionScheduler.start(): nothing when already running
StartScheduler ==
    /\ is_running' = TRUE
    /\ UNCHANGED <<mission_db, exec_task, mission_queue, mode, loop_await,
                   queue_ret, mission_updates, other_vars>>

\* MissionScheduler.stop(): the loop task is cancelled and awaited; an
\* execution the loop was awaiting ends at its sleep with CancelledError,
\* which no handler on the way catches before the loop's own
StopScheduler ==
    /\ is_running' = FALSE
    /\ loop_await' = 0
    /\ exec_task' = IF loop_await # 0
                    THEN [exec_task EXCEPT ![loop_await] = NoExec]
                    ELSE exec_task
    /\ UNCHANGED <<mission_db, mission_queue, mode, queue_ret, mission_updates,
                   other_vars>>

\* ======================================================= specifications
\* the port manager after construction
PoolNew ==
    /\ port_manager = PortManagerNew
    /\ pm_ret = [op |-> "new", arg |-> None, ret |-> None]

\* the whole program after construction
Init == PoolNew /\ FleetInit /\ MissionInit /\ TelemetryNew /\ ServiceNew

TaskStep(o) ==
    \/ TaskCancelledUnstarted(o)
    \/ TaskStart(o)
    \/ TaskUploadDone(o)
    \/ TaskArmDone(o)
    \/ TaskStartDone(o)
    \/ TaskProgressDone(o)
    \/ TaskSimCheckDone(o)
    \/ TaskPositionDone(o)
    \/ TaskPollWake(o)
    \/ TaskSettleDone(o)
    \/ TaskCancelled(o)

MonitorStep(o) ==
    \/ MonitorPoll(o)
    \/ MonitorAbortRtlDone(o)
    \/ MonitorFailRtlDone(o)

\* the program left to itself: orders arrive, the fleet connects, the
\* scheduler dispatches, tasks and monitors run
NominalNext ==
    \/ \E n \in 1..NumDrones : InitializeFleet(n)
    \/ \E d \in Drones : ConnectDrone(d)
    \/ \E o \in Orders : CreateOrder(o)
    \/ SchedulerCycle
    \/ \E o \in Orders : TaskStart(o)
    \/ \E o \in Orders : TaskUploadDone(o)
    \/ \E o \in Orders : TaskArmDone(o)
    \/ \E o \in Orders : TaskStartDone(o)
    \/ \E o \in Orders : TaskProgressDone(o)
    \/ \E o \in Orders : TaskSimCheckDone(o)
    \/ \E o \in Orders : TaskPositionDone(o)
    \/ \E o \in Orders : TaskPollWake(o)
    \/ \E o \in Orders : TaskSettleDone(o)
    \/ \E o \in Orders : TaskCancelled(o)
    \/ \E o \in Orders : MonitorPoll(o)
    \/ \E o \in Orders : MonitorAbortRtlDone(o)
    \/ \E o \in Orders : MonitorFailRtlDone(o)

SpecNominal == Init /\ [][NominalNext]_vars

\* the simulation build (MAVSDK not installed) with a fleet of one drone and
\* status-update requests arriving at any time
RequestsNext ==
    \/ InitializeFleet(1)
    \/ \E d \in Drones : ConnectDrone(d)
    \/ \E o \in Orders : CreateOrder(o)
    \/ SchedulerCycle
    \/ \E o \in Orders : TaskStart(o)
    \/ \E o \in Orders : TaskSimCheckDone(o)
    \/ \E o \in Orders : TaskPollWake(o)
    \/ \E o \in Orders : TaskCancelled(o)
    \/ \E o \in Orders : MonitorPoll(o)
    \/ \E d \in Drones, s \in DroneStatus : RequestStatus(d, s)

RequestsInit == Init /\ ~mavsdk

SpecRequests == RequestsInit /\ [][RequestsNext]_vars

\* a fleet of one drone and one order, with the aborts, status updates and
\* shutdowns that may arrive at any time
Next ==
    \/ InitializeFleet(1)
    \/ \E d \in Drones : ConnectDrone(d)
    \/ ShutdownFleet
    \/ CreateOrder(1)
    \/ SchedulerCycle
    \/ \E o \in Orders : TaskStart(o)
    \/ \E o \in Orders : TaskUploadDone(o)
    \/ \E o \in Orders : TaskArmDone(o)
    \/ \E o \in Orders : TaskStartDone(o)
    \/ \E o \in Orders : TaskProgressDone(o)
    \/ \E o \in Orders : TaskSimCheckDone(o)
    \/ \E o \in Orders : TaskPositionDone(o)
    \/ \E o \in Orders : TaskPollWake(o)
    \/ \E o \in Orders : TaskSettleDone(o)
    \/ \E o \in Orders : TaskCancelled(o)
    \/ \E o \in Orders : TaskCancelledUnstarted(o)
    \/ \E o \in Orders : AbortCall(o)
    \/ \E o \in Orders : AbortCallNoMission(o)
    \/ \E o \in Orders : AbortRtlDone(o)
    \/ RunnerShutdown
    \/ \E d \in Drones, s \in DroneStatus : RequestStatus(d, s)
    \/ \E o \in Orders : MonitorPoll(o)
    \/ \E o \in Orders : MonitorAbortRtlDone(o)
    \/ \E o \in Orders : MonitorFailRtlDone(o)

Spec == Init /\ [][Next]_vars

\* the program left to itself with a fleet of one drone, every coroutine
\* that can run eventually running
LiveNext ==
    \/ InitializeFleet(1)
    \/ \E d \in Drones : ConnectDrone(d)
    \/ \E o \in Orders : CreateOrder(o)
    \/ SchedulerCycle
    \/ \E o \in Orders : TaskStart(o)
    \/ \E o \in Orders : TaskUploadDone(o)
    \/ \E o \in Orders : TaskArmDone(o)
    \/ \E o \in Orders : TaskStartDone(o)
    \/ \E o \in Orders : TaskProgressDone(o)
    \/ \E o \in Orders : TaskSimCheckDone(o)
    \/ \E o \in Orders : TaskPositionDone(o)
    \/ \E o \in Orders : TaskPollWake(o)
    \/ \E o \in Orders : TaskSettleDone(o)
    \/ \E o \in Orders : TaskCancelled(o)
    \/ \E o \in Orders : MonitorPoll(o)
    \/ \E o \in Orders : MonitorAbortRtlDone(o)
    \/ \E o \in Orders : MonitorFailRtlDone(o)

SpecLive ==
    /\ Init
    /\ [][LiveNext]_vars
    /\ WF_vars(InitializeFleet(1))
    /\ WF_vars(SchedulerCycle)
    /\ \A d \in Drones : WF_vars(ConnectDrone(d))
    /\ \A o \in Orders : WF_vars(TaskStep(o))
    /\ \A o \in Orders : WF_vars(MonitorStep(o))

\* the scheduler against any answer of the executor: one drone, both orders
DispatchNext ==
    \/ InitializeFleet(1)
    \/ \E d \in Drones : ConnectDrone(d)
    \/ \E o \in Orders : CreateOrder(o)
    \/ SchedulerCycle
    \/ SchedulerCycleSkip
    \/ SchedulerCycleRejected
    \/ \E d \in Drones, b \in BatteryLevels : TelemetryBattery(d, b)
    \/ \E o \in Orders : TaskStart(o)
    \/ \E o \in Orders : TaskUploadDone(o)
    \/ \E o \in Orders : TaskArmDone(o)
    \/ \E o \in Orders : TaskStartDone(o)
    \/ \E o \in Orders : TaskProgressDone(o)
    \/ \E o \in Orders : TaskSimCheckDone(o)
    \/ \E o \in Orders : TaskPositionDone(o)
    \/ \E o \in Orders : TaskPollWake(o)
    \/ \E o \in Orders : TaskSettleDone(o)
    \/ \E o \in Orders : TaskCancelled(o)
    \/ \E o \in Orders : MonitorPoll(o)
    \/ \E o \in Orders : MonitorAbortRtlDone(o)
    \/ \E o \in Orders : MonitorFailRtlDone(o)

SpecDispatch == Init /\ [][DispatchNext]_vars

\* the scheduler with its administrative operations: one drone, both orders
AdminNext ==
    \/ InitializeFleet(1)
    \/ \E d \in Drones : ConnectDrone(d)
    \/ \E o \in Orders : CreateOrder(o)
    \/ SchedulerCycle
    \/ \E o \in Orders : ForceCompleteOrder(o)
    \/ \E o \in Orders : ForceFailOrder(o)
    \/ \E o \in Orders : TaskStart(o)
    \/ \E o \in Orders : TaskUploadDone(o)
    \/ \E o \in Orders : TaskArmDone(o)
    \/ \E o \in Orders : TaskStartDone(o)
    \/ \E o \in Orders : TaskProgressDone(o)
    \/ \E o \in Orders : TaskSimCheckDone(o)
    \/ \E o \in Orders : TaskPositionDone(o)
    \/ \E o \in Orders : TaskPollWake(o)
    \/ \E o \in Orders : TaskSettleDone(o)
    \/ \E o \in Orders : TaskCancelled(o)
    \/ \E o \in Orders : MonitorPoll(o)
    \/ \E o \in Orders : MonitorAbortRtlDone(o)
    \/ \E o \in Orders : MonitorFailRtlDone(o)

SpecAdmin == Init /\ [][AdminNext]_vars

\* the port manager's checks on any values of its fields
FaultSpecInit == FaultInit /\ FleetInit /\ MissionInit /\ TelemetryNew /\ ServiceNew /\ mavsdk

SpecFault == FaultSpecInit /\ [][FaultNext]_vars

\* the port manager alone, on an initialized pool
PoolSpecInit == PoolInit /\ FleetInit /\ MissionInit /\ TelemetryNew /\ ServiceNew /\ mavsdk

SpecPool == PoolSpecInit /\ [][PoolNext]_vars

\* the fleet manager alone, its operations called in any order
RegistryInit == PoolNew /\ FleetInit /\ MissionInit /\ TelemetryNew /\ ServiceNew

SpecRegistry == RegistryInit /\ [][RegistryNext]_vars

\* the health assessment alone: one drone whose battery, connection, status
\* and telemetry history are drawn from the sets below
HealthBatteryLevels == {0, 8, 9, 10, 15, 19, 20, 100}
HealthHistories ==
    {[d \in {} |-> <<>>]} \cup {[d \in {1} |-> h] : h \in {<<>>, <<0>>, <<0, 20>>}}
HealthTimes == {20, 30, 31}

HealthInit ==
    /\ PoolNew /\ MissionInit /\ ServiceNew
    /\ mavsdk = TRUE
    /\ drones \in [{1} -> [status : DroneStatus, current_order_id : {None},
                           battery_level : HealthBatteryLevels,
                           is_connected : BOOLEAN]]
    /\ order_assignments = [o \in Orders |-> None]
    /\ conn_task = [d \in Drones |-> "none"]
    /\ unit_trace = [o \in Orders |-> <<>>]
    /\ is_monitoring = FALSE
    /\ loop_tasks = [telemetry |-> [i \in 1..MaxLoops |-> NoTask],
                     health |-> 0, fleet |-> 0]
    /\ clock = 0
    /\ drone_telemetry_history \in HealthHistories
    /\ drone_health_status = [d \in {} |-> <<>>]
    /\ fleet_data = <<>>

HealthNext ==
    \/ StartMonitoring
    \/ StopMonitoring
    \/ \E t \in HealthTimes : HealthMonitoringIteration(t)
    \/ HealthLoopExit
    \/ \E i \in 1..MaxLoops : TelemetryLoopExit(i)
    \/ FleetLoopExit

SpecHealth == HealthInit /\ [][HealthNext]_vars

\* the fleet aggregation loop beside the scheduler and its missions: the
\* whole fleet, the first order
TelemetryNext ==
    \/ \E n \in 1..NumDrones : InitializeFleet(n)
    \/ \E d \in Drones : ConnectDrone(d)
    \/ CreateOrder(1)
    \/ SchedulerCycle
    \/ \E o \in Orders : TaskStart(o)
    \/ \E o \in Orders : TaskUploadDone(o)
    \/ \E o \in Orders : TaskArmDone(o)
    \/ \E o \in Orders : TaskStartDone(o)
    \/ \E o \in Orders : TaskProgressDone(o)
    \/ \E o \in Orders : TaskSimCheckDone(o)
    \/ \E o \in Orders : TaskPositionDone(o)
    \/ \E o \in Orders : TaskPollWake(o)
    \/ \E o \in Orders : TaskSettleDone(o)
    \/ \E o \in Orders : TaskCancelled(o)
    \/ \E o \in Orders : MonitorPoll(o)
    \/ \E o \in Orders : MonitorAbortRtlDone(o)
    \/ \E o \in Orders : MonitorFailRtlDone(o)
    \/ StartMonitoring
    \/ StopMonitoring
    \/ FleetAggregationIteration
    \/ FleetLoopExit
    \/ \E i \in 1..MaxLoops : TelemetryLoopExit(i)
    \/ HealthLoopExit

SpecTelemetry == Init /\ [][TelemetryNext]_vars

\* the scheduler on orders of every priority: one drone, both orders
PriorityNext ==
    \/ InitializeFleet(1)
    \/ \E d \in Drones : ConnectDrone(d)
    \/ \E o \in Orders, pr \in Priority : CreateOrderWith(o, pr)
    \/ SchedulerCycle
    \/ \E o \in Orders : TaskStart(o)
    \/ \E o \in Orders : TaskUploadDone(o)
    \/ \E o \in Orders : TaskArmDone(o)
    \/ \E o \in Orders : TaskStartDone(o)
    \/ \E o \in Orders : TaskProgressDone(o)
    \/ \E o \in Orders : TaskSimCheckDone(o)
    \/ \E o \in Orders : TaskPositionDone(o)
    \/ \E o \in Orders : TaskPollWake(o)
    \/ \E o \in Orders : TaskSettleDone(o)
    \/ \E o \in Orders : TaskCancelled(o)
    \/ \E o \in Orders : MonitorPoll(o)
    \/ \E o \in Orders : MonitorAbortRtlDone(o)
    \/ \E o \in Orders : MonitorFailRtlDone(o)

SpecPriority == Init /\ [][PriorityNext]_vars

\* the telemetry loop beside the fleet manager: drones connect and the
\* fleet is shut down while monitoring is started and stopped
CollectNext ==
    \/ InitializeFleet(NumDrones)
    \/ \E d \in Drones : ConnectDrone(d)
    \/ ShutdownFleet
    \/ StartMonitoring
    \/ StopMonitoring
    \/ \E i \in 1..MaxLoops : TelemetryIteration(i)
    \/ \E i \in 1..MaxLoops, got \in BOOLEAN : TelemetryCollectDone(i, got)
    \/ \E i \in 1..MaxLoops : TelemetryLoopExit(i)
    \/ HealthLoopExit
    \/ FleetLoopExit

SpecCollect == Init /\ [][CollectNext]_vars

\* the three polling loops with iterations that raise, in the simulation
\* build (a collection never suspends the telemetry loop)
LoopsInit == Init /\ ~mavsdk

LoopsNext ==
    \/ InitializeFleet(NumDrones)
    \/ \E d \in Drones : ConnectDrone(d)
    \/ StartMonitoring
    \/ StopMonitoring
    \/ \E i \in 1..MaxLoops : TelemetryIteration(i)
    \/ \E i \in 1..MaxLoops : TelemetryIterationRaises(i)
    \/ \E i \in 1..MaxLoops : TelemetryLoopExit(i)
    \/ HealthMonitoringIteration(clock)
    \/ \E k \in 0..NumDrones : HealthIterationRaises(clock, k)
    \/ HealthLoopExit
    \/ FleetAggregationIteration
    \/ FleetIterationRaises
    \/ FleetLoopExit

SpecLoops == LoopsInit /\ [][LoopsNext]_vars

\* ------------------------------------------------------------ C2
\* C2: assignJob returns true only when, at the call, the unit is Idle,
\* connected and has battery above 20%.
C2_AssignOnlyEligible ==
    [][\A o \in Orders, d \in Drones :
         (CallAssign(o, d) /\ assign_order_to_drone(FleetState, o, d).ret)
         => (/\ d \in DOMAIN drones
             /\ drones[d].status = IDLE
             /\ drones[d].is_connected
             /\ drones[d].battery_level > 20)]_vars

\* ------------------------------------------------------------ C1
\* C1: after any sequence of allocate/release on an initialized pool, no
\* slot is held by two different units: the unit->slot mapping is injective
\* and no unit is listed twice.
C1_NoSharedSlot ==
    LET m == port_manager.drone_port_mapping
    IN \A i, j \in 1..Len(m) :
          i # j => (m[i].port # m[j].port /\ m[i].drone_id # m[j].drone_id)

\* two units hold slots while a lower slot has been released again
C1_Witness ==
    LET m == port_manager.drone_port_mapping
    IN /\ Len(m) >= 2
       /\ \E p \in DOMAIN port_manager.ports :
             /\ port_manager.ports[p].is_available
             /\ \E i \in 1..Len(m) : m[i].port > p

\* ------------------------------------------------------------ C3
\* C3: under any interleaving of dispatch cycles, task steps, completion and
\* status updates, no two distinct jobs of the job->unit assignment map
\* point at the same unit.
C3_OneJobPerUnit ==
    \A o1, o2 \in Orders :
       (o1 # o2 /\ order_assignments[o1] # None)
       => order_assignments[o1] # order_assignments[o2]

\* ------------------------------------------------------------ C4
\* the legal graph of the unit status:
\* Offline -> Connecting -> Idle <-> Armed -> InFlight -> MissionActive
\*         -> Returning -> Landing -> Idle
CONNECTING == "connecting"

LegalGraph ==
    {<<OFFLINE, CONNECTING>>, <<CONNECTING, IDLE>>, <<IDLE, ARMED>>, <<ARMED, IDLE>>,
     <<ARMED, IN_FLIGHT>>, <<IN_FLIGHT, MISSION_ACTIVE>>, <<MISSION_ACTIVE, RETURNING>>,
     <<RETURNING, LANDING>>, <<LANDING, IDLE>>}

LegalChange(from, to) == <<from, to>> \in LegalGraph \/ to = ERROR

\* C4: every change of a unit's status is an edge of the legal graph or a
\* transition into Error: both the change a step leaves behind and each
\* change a unit makes, within a step, while bound to a job.
C4_LegalChanges ==
    [][/\ \A d \in DOMAIN drones :
            (d \in DOMAIN drones' /\ drones'[d].status # drones[d].status)
            => LegalChange(drones[d].status, drones'[d].status)
       /\ \A o \in Orders : \A i \in 1..(Len(unit_trace'[o]) - 1) :
            LegalChange(unit_trace'[o][i], unit_trace'[o][i + 1])]_vars

\* ------------------------------------------------------------ C5
\* C5: if the upload, or arm/start, fails for a dispatched job, the job's
\* final status is Failed (never Completed) and the unit ends with no
\* current job.
C5_FailedStartFailsJob ==
    \A o \in Orders :
       (mission_result[o] \in {"upload_failed", "start_failed"} /\ monitor_pc[o] = "done")
       => /\ order_status[o] = FAILED
          /\ \A d \in DOMAIN drones : drones[d].current_order_id # o

\* ------------------------------------------------------------ C6
\* C6: if abort_mission(job) is called while the job's task is executing and
\* returns true, the job's final status is Failed (never Completed) and the
\* unit that ran it ends Idle with no current job.
C6_AbortFailsJob ==
    \A o \in Orders :
       (aborted[o] = "executing" /\ monitor_pc[o] = "done")
       => /\ order_status[o] = FAILED
          /\ drones[task_drone[o]].status = IDLE
          /\ drones[task_drone[o]].current_order_id = None

\* ------------------------------------------------------------ C7
\* C7: if the connection is lost, or the mission-progress query raises,
\* while a task is monitored, the unit is forced to Error and the job ends
\* Failed; it is never taken for completion.
C7_LinkFailureIsFailure ==
    \A o \in Orders :
       mission_result[o] \in {"link_lost", "progress_error"}
       => /\ \E i \in 1..Len(unit_trace[o]) : unit_trace[o][i] = ERROR
          /\ order_status[o] # COMPLETED
          /\ monitor_pc[o] = "done" => order_status[o] = FAILED

\* ------------------------------------------------------------ C8
\* no monitor has found a mission still active past its deadline
NoDeadlinePassed ==
    \A p \in Orders :
       /\ monitor_pc[p] \notin {"abort_rtl", "fail_rtl"}
       /\ \A i \in 1..Len(job_log[p]) : job_log[p][i] # FAILED

\* upload, arm and start succeeded, the vehicle reported the mission
\* complete, the task and the monitor of the order have ended
SuccessPath(o) ==
    /\ mission_result[o] = "complete"
    /\ task_pc[o] = "done"
    /\ monitor_pc[o] = "done"
    /\ NoDeadlinePassed

C9_EverythingEnds ==
    \A o \in Orders :
       (monitor_pc[o] = "created")
       ~> (order_status[o] \in {COMPLETED, FAILED} /\ task_pc[o] \in TaskEnded)

\* ------------------------------------------------------------ C10
\* C10: once the mission task of a job/unit pair has ended by cancellation
\* (abort_mission or shutdown), the unit is not bound to the job, and a unit
\* without a job is Idle or Offline.
C10_CancelReleases ==
    \A o \in Orders :
       task_pc[o] = "cancelled"
       => /\ drones[task_drone[o]].current_order_id # o
          /\ drones[task_drone[o]].current_order_id = None
                => drones[task_drone[o]].status \in {IDLE, OFFLINE}

C12_FailedHasReason ==
    \A o \in Orders : order_status[o] = FAILED => failure_reason[o] # ""

\* C13: when assign_order_to_drone returns False (unknown drone, or drone not
\* eligible), the registry is unchanged: no drone's status, current order,
\* connection or battery changes and the order -> drone map is unchanged
C13_RejectedAssignChangesNothing ==
    [][\A o \in Orders, d \in Drones \cup {NumDrones + 1} :
         (CallAssign(o, d) /\ ~assign_order_to_drone(FleetState, o, d).ret)
         => (drones' = drones /\ order_assignments' = order_assignments)]_vars

\* a rejected call leaves the state it was made in: here a drone bound to
\* one order is asked for another order, which the call rejects
C13_Witness ==
    \E o \in Orders, d \in DOMAIN drones :
       /\ drones[d].status # IDLE
       /\ drones[d].current_order_id \notin {None, o}
       /\ order_assignments[o] = None
       /\ ~assign_order_to_drone(FleetState, o, d).ret
       /\ ~assign_order_to_drone(FleetState, o, NumDrones + 1).ret

\* C14: the status-update operation rejects every requested transition that
\* is neither an edge of the legal status graph nor a transition to Error:
\* the drone's status is left as it was
C14_IllegalUpdateRejected ==
    [][\A d \in Drones, s \in DroneStatus :
         (/\ CallUpdateStatus(d, s)
          /\ d \in DOMAIN drones
          /\ ~LegalChange(drones[d].status, s))
         => drones'[d].status = drones[d].status]_vars

\* C15: allocate_port is idempotent: for a drone that already holds a port
\* it returns that port and leaves ports, mapping and reservations as they
\* are, also when that port has meanwhile been reserved
C15_AllocateIdempotent ==
    [][\A u \in PoolUnits :
         (/\ pm_ret'.op = "allocate"
          /\ Allocate(u)
          /\ MappingHas(port_manager.drone_port_mapping, u))
         => (/\ pm_ret'.ret = MappingGet(port_manager.drone_port_mapping, u)
             /\ port_manager' = port_manager)]_vars

\* allocate_port has just answered a port that is reserved: the allocation
\* loop skips reserved ports, so the drone held it before the call
C15_Witness ==
    /\ pm_ret.op = "allocate"
    /\ MappingHas(port_manager.drone_port_mapping, pm_ret.arg)
    /\ pm_ret.ret = MappingGet(port_manager.drone_port_mapping, pm_ret.arg)
    /\ pm_ret.ret \in port_manager.reserved_ports

\* C16: a pool initialized with count N from base B, all probes succeeding,
\* holds exactly the ports B..B+N-1; with no reservation, allocate_port for a
\* drone without a port answers a port no other drone holds as long as fewer
\* than N drones hold one, and for an (N+1)-th drone it answers None and
\* leaves the pool as it is
C16_PoolExactAndExhausts ==
    [][/\ initialize_port_pool(PortManagerNew, BasePort, PoolCount,
                               (BasePort - 1)..(BasePort + PoolCount)).ports
            = [p \in BasePort..(BasePort + PoolCount - 1) |-> PortConfig]
       /\ \A u \in PoolUnits :
            (/\ pm_ret'.op = "allocate"
             /\ Allocate(u)
             /\ DOMAIN port_manager.ports = BasePort..(BasePort + PoolCount - 1)
             /\ port_manager.reserved_ports = {}
             /\ ~MappingHas(port_manager.drone_port_mapping, u))
            => IF Len(port_manager.drone_port_mapping) < PoolCount
               THEN /\ pm_ret'.ret \in DOMAIN port_manager.ports
                    /\ \A i \in 1..Len(port_manager.drone_port_mapping) :
                          port_manager.drone_port_mapping[i].port # pm_ret'.ret
                    /\ MappingGet(port_manager'.drone_port_mapping, u) = pm_ret'.ret
               ELSE /\ pm_ret'.ret = None
                    /\ port_manager' = port_manager]_vars

\* N drones hold the N ports of a full pool without reservations, and
\* allocate_port has just answered None to one more drone
C16_Witness ==
    /\ pm_ret.op = "allocate"
    /\ pm_ret.ret = None
    /\ ~MappingHas(port_manager.drone_port_mapping, pm_ret.arg)
    /\ DOMAIN port_manager.ports = BasePort..(BasePort + PoolCount - 1)
    /\ port_manager.reserved_ports = {}
    /\ Cardinality({port_manager.drone_port_mapping[i].port :
                       i \in 1..Len(port_manager.drone_port_mapping)}) = PoolCount

\* a unit is eligible: Idle, connected, battery above 0.2
Eligible(d) ==
    /\ d \in DOMAIN drones
    /\ drones[d].status = IDLE
    /\ drones[d].is_connected
    /\ drones[d].battery_level > 20

\* C17: a scheduler cycle that runs while no unit is eligible leaves every
\* Pending job Pending and writes nothing to the orders table; a cycle that
\* runs while some unit is eligible and a job is Pending takes a Pending job
\* out of Pending, writing Scheduled to its row
C17_CycleDispatchesIffEligible ==
    [][(SchedulerCycle \/ SchedulerCycleSkip \/ SchedulerCycleRejected)
       => IF \A d \in Drones : ~Eligible(d)
          THEN UNCHANGED <<order_status, created_at, job_log, failure_reason>>
          ELSE (\E o \in Orders : order_status[o] = PENDING)
               => \E o \in Orders :
                     /\ order_status[o] = PENDING
                     /\ order_status'[o] # PENDING
                     /\ Len(job_log'[o]) > Len(job_log[o])
                     /\ job_log'[o][Len(job_log[o]) + 1] = SCHEDULED]_vars

\* one job was taken out of Pending by a cycle, and cycles now run with a
\* Pending job and no eligible unit
C17_Witness ==
    /\ DOMAIN drones # {}
    /\ \A d \in Drones : ~Eligible(d)
    /\ \E o1, o2 \in Orders :
          /\ Len(job_log[o1]) >= 2
          /\ job_log[o1][2] = SCHEDULED
          /\ order_status[o2] = PENDING

\* C18: abort_mission for an order that has no active mission (never
\* dispatched, already finished, or already aborted) returns False and
\* changes nothing: no drone's status, no assignment and no entry of the
\* task maps; so a second abort of the same order returns False
C18_AbortWithoutTaskChangesNothing ==
    [][\A o \in Orders :
         AbortCallNoMission(o)
         => (/\ ~abort_mission(MissionState, o).ret
             /\ UNCHANGED <<drones, order_assignments, active_missions,
                            mission_tasks, task_cancel, task_pc>>)]_vars

\* an abort of the order has returned True and the order has left
\* active_missions: a second abort_mission finds it missing (the rejected
\* call leaves this state as it is)
C18_Witness ==
    \E o \in Orders :
       /\ aborted[o] # "no"
       /\ abort_pc[o] = "idle"
       /\ active_missions[o] = None
       /\ DOMAIN drones # {}
       /\ ~abort_mission(MissionState, o).ret

\* C19: get_available_drone returns the earliest-registered drone among
\* those Idle, connected and with battery above 0.2, returns None exactly
\* when there is no such drone, and never returns a drone that has a
\* current order
C19_AvailableIsFirstEligibleAndFree ==
    LET d == get_available_drone(drones)
    IN IF \E e \in Drones : Eligible(e)
       THEN /\ d \in Drones
            /\ Eligible(d)
            /\ \A e \in Drones : Eligible(e) => d <= e
            /\ drones[d].current_order_id = None
       ELSE d = None

\* C20: release_drone_from_order(order) for an order mapped to a drone,
\* whatever that drone's status is, empties the drone's current order, sets
\* its status to Idle and removes the order from the map, every other drone
\* and every other entry of the map unchanged; for an order that is not
\* mapped it changes nothing
C20_ReleaseFrame ==
    [][\A o \in Orders :
         CallRelease(o)
         => IF order_assignments[o] # None
            THEN LET d == order_assignments[o]
                 IN /\ drones' = [drones EXCEPT ![d].current_order_id = None,
                                                ![d].status = IDLE]
                    /\ order_assignments' = [order_assignments EXCEPT ![o] = None]
            ELSE drones' = drones /\ order_assignments' = order_assignments]_vars

\* only release_drone_from_order empties current_order_id: drone d, still
\* the target of order o2 in the map, has been released through order o1,
\* which was mapped to it as well, while another drone is not Idle
C20_Witness ==
    \E o1, o2 \in Orders, d \in DOMAIN drones :
       /\ o1 # o2
       /\ order_assignments[o1] = None
       /\ order_assignments[o2] = d
       /\ drones[d].current_order_id = None
       /\ drones[d].status = IDLE
       /\ \E e \in DOMAIN drones \ {d} : drones[e].status # IDLE

\* C21: Offline is terminal: once shutdown_fleet has set a drone OFFLINE, no
\* later step of the program changes its status (with no outside request
\* served up to and in the step, an OFFLINE drone whose connection task is
\* over was set so by shutdown_fleet)
C21_OfflineIsTerminal ==
    [][\A d \in DOMAIN drones :
         (/\ drones[d].status = OFFLINE
          /\ conn_task[d] # "pending"
          /\ requests' = 0)
         => drones'[d].status = OFFLINE]_vars

\* C22: reserve_port of a port that is not in the pool returns False and
\* changes nothing; allocate_port never newly assigns a reserved port, even
\* when it is the only free one; reserve_port and unreserve_port change no
\* port's is_available flag and no entry of the mapping; after unreserve_port
\* a free port can be allocated again
C22_ReservationBlocksAllocation ==
    [][/\ \A p \in PoolPorts \cup {BasePort + PoolCount} :
            /\ (pm_ret'.op = "reserve" /\ Reserve(p))
               => /\ port_manager'.ports = port_manager.ports
                  /\ port_manager'.drone_port_mapping = port_manager.drone_port_mapping
                  /\ p \notin DOMAIN port_manager.ports
                        => (~pm_ret'.ret /\ port_manager' = port_manager)
            /\ (pm_ret'.op = "unreserve" /\ Unreserve(p))
               => /\ port_manager'.ports = port_manager.ports
                  /\ port_manager'.drone_port_mapping = port_manager.drone_port_mapping
                  /\ (/\ p \in port_manager.reserved_ports
                      /\ p \in DOMAIN port_manager.ports
                      /\ port_manager.ports[p].is_available)
                        => \A u \in PoolUnits :
                              ~MappingHas(port_manager'.drone_port_mapping, u)
                              => /\ allocate_port(port_manager', u).ret # None
                                 /\ allocate_port(port_manager', u).ret <= p
       /\ \A u \in PoolUnits :
            (/\ pm_ret'.op = "allocate"
             /\ Allocate(u)
             /\ ~MappingHas(port_manager.drone_port_mapping, u))
            => pm_ret'.ret \notin port_manager.reserved_ports]_vars

\* allocate_port has just answered None to a drone without a port while a
\* port of the pool is free: every free port is reserved
C22_Witness ==
    /\ pm_ret.op = "allocate"
    /\ pm_ret.ret = None
    /\ ~MappingHas(port_manager.drone_port_mapping, pm_ret.arg)
    /\ \E p \in DOMAIN port_manager.ports :
          /\ port_manager.ports[p].is_available
          /\ p \in port_manager.reserved_ports
          /\ \A q \in DOMAIN port_manager.ports \ {p} : ~port_manager.ports[q].is_available

\* (a) one port is the value of two entries of the mapping
SlotMappedTwice(pm) ==
    \E i, j \in 1..Len(pm.drone_port_mapping) :
       i # j /\ pm.drone_port_mapping[i].port = pm.drone_port_mapping[j].port

\* (b) a port that is the value of an entry of the mapping is marked free
MappedSlotFree(pm) ==
    \E i \in 1..Len(pm.drone_port_mapping) :
       /\ pm.drone_port_mapping[i].port \in DOMAIN pm.ports
       /\ pm.ports[pm.drone_port_mapping[i].port].is_available

\* (c) a port that is not free is the value of no entry of the mapping
NonFreeSlotUnmapped(pm) ==
    \E p \in DOMAIN pm.ports :
       /\ ~pm.ports[p].is_available
       /\ \A i \in 1..Len(pm.drone_port_mapping) : pm.drone_port_mapping[i].port # p

\* C23: for any values of the pool's fields, validate reports at least one
\* issue whenever (a), (b) or (c) holds; validate never modifies the pool,
\* neither called on its own nor through the validation endpoint: a fault is
\* repaired only by an explicit call of auto_fix_port_assignments
C23_ValidateDetectsAndOnlyReports ==
    [][/\ (pm_ret'.op = "validate" /\ Validate)
          => /\ port_manager' = port_manager
             /\ (\/ SlotMappedTwice(port_manager)
                 \/ MappedSlotFree(port_manager)
                 \/ NonFreeSlotUnmapped(port_manager)) => pm_ret'.ret > 0
       /\ (pm_ret'.op = "validate_endpoint" /\ ValidateFleetConfiguration)
          => port_manager' = port_manager]_vars

\* C24: auto_fix_port_assignments on an inconsistent pool keeps the
\* reservations and leaves the previously mapped drones, taken in ascending
\* drone id, holding the non-reserved ports in ascending port order: the
\* k-th drone holds the k-th such port, a drone is without a port only when
\* none is left, no other drone holds a port, and the ports' records agree
C24_AutoFixInUnitOrder ==
    [][(/\ pm_ret'.op = "auto_fix"
        /\ AutoFix
        /\ validate_port_assignments(port_manager) > 0)
       => LET m == port_manager.drone_port_mapping
              n == port_manager'.drone_port_mapping
              units == {m[i].drone_id : i \in 1..Len(m)}
              slots == DOMAIN port_manager.ports \ port_manager.reserved_ports
              rank(S, x) == Cardinality({y \in S : y < x}) + 1
          IN /\ port_manager'.reserved_ports = port_manager.reserved_ports
             /\ DOMAIN port_manager'.ports = DOMAIN port_manager.ports
             /\ \A i \in 1..Len(n) : n[i].drone_id \in units
             /\ \A u \in units :
                   IF rank(units, u) <= Cardinality(slots)
                   THEN /\ MappingHas(n, u)
                        /\ MappingGet(n, u) \in slots
                        /\ rank(slots, MappingGet(n, u)) = rank(units, u)
                   ELSE ~MappingHas(n, u)
             /\ \A q \in DOMAIN port_manager'.ports :
                   IF \E i \in 1..Len(n) : n[i].port = q
                   THEN /\ ~port_manager'.ports[q].is_available
                        /\ MappingHas(n, port_manager'.ports[q].assigned_drone_id)
                        /\ MappingGet(n, port_manager'.ports[q].assigned_drone_id) = q
                   ELSE port_manager'.ports[q] = PortConfig]_vars

\* the moves of a job's status: Pending -> Scheduled -> InFlight ->
\* {Completed, Failed}, Failed also from Pending and from Scheduled
JobGraph ==
    {<<PENDING, SCHEDULED>>, <<SCHEDULED, ORDER_IN_FLIGHT>>,
     <<ORDER_IN_FLIGHT, COMPLETED>>, <<ORDER_IN_FLIGHT, FAILED>>,
     <<PENDING, FAILED>>, <<SCHEDULED, FAILED>>}

\* C25: the status of a row only moves along the job graph, and once it is
\* Completed or Failed it never changes again, whichever operation writes:
\* any two statuses written one after the other to a row are equal or an
\* edge of the graph
C25_JobStatusMoves ==
    \A o \in Orders :
       \A i \in 1..(Len(job_log[o]) - 1) :
          \/ job_log[o][i] = job_log[o][i + 1]
          \/ <<job_log[o][i], job_log[o][i + 1]>> \in JobGraph


\* ------------------------------------------------------------ C26
\* the telemetry warning a drone gets at time t: its history is missing or
\* empty, or its last entry is more than 10 s old
TelemetryLate(d, t) ==
    \/ d \notin DOMAIN drone_telemetry_history
    \/ drone_telemetry_history[d] = <<>>
    \/ t - drone_telemetry_history[d][Len(drone_telemetry_history[d])] > 10

Among(msg, list) == \E i \in DOMAIN list : list[i] = msg

\* C26: a health assessment reports healthy = false exactly when the battery
\* is below 10 %, the drone is not connected, or its status is Error or
\* Offline, and its error list is non-empty exactly then; a battery below
\* 20 % adds the low-battery warning; late or missing telemetry adds a
\* warning only; a battery of 8 % on an unconnected drone gives both the
\* critical-battery and the not-connected error.
C26_HealthAssessment ==
    [][\A t \in HealthTimes : HealthMonitoringIteration(t) =>
          \A d \in DOMAIN drones :
             LET u == drones[d]
                 m == drone_health_status'[d]
                 faulty == \/ u.battery_level < 10
                           \/ ~u.is_connected
                           \/ u.status \in {ERROR, OFFLINE}
             IN  /\ m.is_healthy = ~faulty
                 /\ (m.error_messages # <<>>) = faulty
                 /\ Among("Low battery", m.warning_messages) = (u.battery_level < 20)
                 /\ TelemetryLate(d, t) =>
                       /\ \/ Among("Stale telemetry", m.warning_messages)
                          \/ Among("No telemetry data available", m.warning_messages)
                          \/ Among("No telemetry history", m.warning_messages)
                       /\ \A i \in DOMAIN m.error_messages :
                             m.error_messages[i] \in
                                {"Critical battery", "Drone not connected",
                                 "Drone in error state", "Drone offline"}
                 /\ (u.battery_level = 8 /\ ~u.is_connected) =>
                       /\ ~m.is_healthy
                       /\ Among("Critical battery", m.error_messages)
                       /\ Among("Drone not connected", m.error_messages)]_vars

\* a drone at 8 % and unconnected, in an otherwise sound status, has been
\* assessed
C26_Witness ==
    /\ 1 \in DOMAIN drone_health_status
    /\ drones[1].battery_level = 8
    /\ ~drones[1].is_connected
    /\ drones[1].status = IDLE
    /\ ~drone_health_status[1].is_healthy
    /\ Len(drone_health_status[1].error_messages) = 2


\* ------------------------------------------------------------ C27
\* C27: the label of a fleet aggregation is active_missions exactly when some
\* task is executing, whatever the number of connected drones; otherwise it
\* is all_online when every drone is connected, partial_online when some but
\* not all are, and offline when none is.
C27_FleetStatusLabel ==
    [][FleetAggregationIteration =>
          LET label == fleet_data'[1].fleet_status
              executing == \E o \in Orders : task_pc[o] \in TaskExecuting
              connected == {d \in DOMAIN drones : drones[d].is_connected}
          IN  /\ (label = "active_missions") = executing
              /\ ~executing =>
                    /\ (label = "all_online") = (connected = DOMAIN drones)
                    /\ (label = "partial_online") =
                          (connected # {} /\ connected # DOMAIN drones)
                    /\ (label = "offline") =
                          (connected = {} /\ connected # DOMAIN drones)]_vars

\* the labels by connectivity, in the aggregations made while the runner
\* holds no mission
FleetLabelWithoutMissions ==
    [][(FleetAggregationIteration /\ \A o \in Orders : active_missions[o] = None) =>
          LET label == fleet_data'[1].fleet_status
              connected == {d \in DOMAIN drones : drones[d].is_connected}
          IN  /\ (label = "all_online") = (connected = DOMAIN drones)
              /\ (label = "partial_online") =
                    (connected # {} /\ connected # DOMAIN drones)
              /\ (label = "offline") = (connected = {} /\ connected # DOMAIN drones)]_vars


\* ------------------------------------------------------------ C28
\* C28: allocate_port for a drone that holds no port takes the lowest port
\* that is available and not reserved, marks it unavailable with the drone as
\* its assignee and records drone -> port, leaving every other port as it
\* was; this after any sequence of allocations, releases, reservations and
\* repairs.
C28_AllocateTakesLowestFree ==
    [][\A u \in PoolUnits :
          (/\ pm_ret'.op = "allocate"
           /\ Allocate(u)
           /\ ~MappingHas(port_manager.drone_port_mapping, u)
           /\ \E p \in DOMAIN port_manager.ports :
                 port_manager.ports[p].is_available /\ p \notin port_manager.reserved_ports)
          => LET got == pm_ret'.ret
             IN  /\ got \in DOMAIN port_manager.ports
                 /\ port_manager.ports[got].is_available
                 /\ got \notin port_manager.reserved_ports
                 /\ \A q \in DOMAIN port_manager.ports :
                       (port_manager.ports[q].is_available
                        /\ q \notin port_manager.reserved_ports) => got <= q
                 /\ port_manager'.ports[got] =
                       [is_available |-> FALSE, assigned_drone_id |-> u]
                 /\ \A q \in DOMAIN port_manager.ports \ {got} :
                       port_manager'.ports[q] = port_manager.ports[q]
                 /\ MappingHas(port_manager'.drone_port_mapping, u)
                 /\ MappingGet(port_manager'.drone_port_mapping, u) = got
                 /\ port_manager'.reserved_ports = port_manager.reserved_ports]_vars

\* the lowest port has just gone to a new drone although an earlier drone
\* holds a higher port and a higher port still is free: the low port had
\* been given back
C28_Witness ==
    /\ pm_ret.op = "allocate"
    /\ pm_ret.ret = BasePort
    /\ Len(port_manager.drone_port_mapping) >= 2
    /\ port_manager.drone_port_mapping[Len(port_manager.drone_port_mapping)] =
          [drone_id |-> pm_ret.arg, port |-> BasePort]
    /\ port_manager.drone_port_mapping[1].port = BasePort + 1
    /\ port_manager.reserved_ports = {}
    /\ (BasePort + 2) \in DOMAIN port_manager.ports
    /\ port_manager.ports[BasePort + 2].is_available


\* ------------------------------------------------------------ C29
\* C29: in every state reached from an initialized pool by allocate_port,
\* release_port, reserve_port, unreserve_port and auto_fix_port_assignments,
\* a port has assignee X exactly when the mapping sends X to that port, a
\* port is unavailable exactly when it has an assignee, and
\* validate_port_assignments reports no issue.
C29_SlotsAgreeWithMapping ==
    /\ \A p \in DOMAIN port_manager.ports : \A u \in PoolUnits :
          (port_manager.ports[p].assigned_drone_id = u)
          = (/\ MappingHas(port_manager.drone_port_mapping, u)
             /\ MappingGet(port_manager.drone_port_mapping, u) = p)
    /\ \A p \in DOMAIN port_manager.ports :
          (~port_manager.ports[p].is_available)
          = (port_manager.ports[p].assigned_drone_id # None)
    /\ \A p \in DOMAIN port_manager.ports :
          port_manager.ports[p].assigned_drone_id \in PoolUnits \cup {None}
    /\ \A i, j \in 1..Len(port_manager.drone_port_mapping) :
          port_manager.drone_port_mapping[i].drone_id
             = port_manager.drone_port_mapping[j].drone_id => i = j
    /\ validate_port_assignments(port_manager) = 0

\* a release has just succeeded on a pool where another drone holds a port,
\* a port is reserved and a port is free
C29_Witness ==
    /\ pm_ret.op = "release"
    /\ pm_ret.ret = TRUE
    /\ Len(port_manager.drone_port_mapping) >= 1
    /\ port_manager.reserved_ports # {}
    /\ \E p \in DOMAIN port_manager.ports : port_manager.ports[p].is_available
    /\ \E p \in DOMAIN port_manager.ports :
          port_manager.ports[p].assigned_drone_id # None


\* ------------------------------------------------------------ C30
\* some port's assignee is not sent to that port by the mapping
SlotAssigneeNotMapped(pm) ==
    \E p \in DOMAIN pm.ports :
       /\ pm.ports[p].assigned_drone_id # None
       /\ ~\E i \in 1..Len(pm.drone_port_mapping) :
              pm.drone_port_mapping[i] =
                 [drone_id |-> pm.ports[p].assigned_drone_id, port |-> p]

\* some entry X -> s of the mapping has port s not assigned to X
MappingTargetNotAssigned(pm) ==
    \E i \in 1..Len(pm.drone_port_mapping) :
       \/ pm.drone_port_mapping[i].port \notin DOMAIN pm.ports
       \/ pm.ports[pm.drone_port_mapping[i].port].assigned_drone_id
             # pm.drone_port_mapping[i].drone_id

\* C30: for any values of the pool's fields in which the port records and
\* the mapping diverge (a port's assignee is not mapped to it, or a mapping
\* entry's port is not assigned to its drone), validate_port_assignments
\* returns a non-empty list.
C30_EveryDivergenceDetected ==
    [][(/\ pm_ret'.op = "validate"
        /\ Validate
        /\ \/ SlotAssigneeNotMapped(port_manager)
           \/ MappingTargetNotAssigned(port_manager))
       => pm_ret'.ret > 0]_vars


\* ------------------------------------------------------------ C31
\* priority weight: high > medium > low
PriorityWeight(pr) == IF pr = HIGH THEN 3 ELSE IF pr = MEDIUM THEN 2 ELSE 1

\* C31: the order a scheduler cycle takes out of Pending is the Pending
\* order with the earliest created_at and, among the Pending orders of equal
\* created_at, one of the highest priority.
C31_OldestThenPriority ==
    [][SchedulerCycle =>
          \A o \in Orders :
             (order_status[o] = PENDING /\ order_status'[o] # PENDING)
             => \A p \in Orders :
                   order_status[p] = PENDING
                   => /\ created_at[o] <= created_at[p]
                      /\ created_at[o] = created_at[p]
                            => PriorityWeight(priority[o]) >= PriorityWeight(priority[p])]_vars

\* the order a cycle takes is always one of the earliest created_at
TakenIsOldest ==
    [][SchedulerCycle =>
          \A o \in Orders :
             (order_status[o] = PENDING /\ order_status'[o] # PENDING)
             => \A p \in Orders :
                   order_status[p] = PENDING => created_at[o] <= created_at[p]]_vars


\* ------------------------------------------------------------ C32
\* C32: in one scheduler cycle at most one order leaves Pending and at most
\* one mission task is created, whatever the number of Pending orders and of
\* eligible drones.
C32_OneDispatchPerCycle ==
    [][SchedulerCycle =>
          /\ Cardinality({o \in Orders : order_status[o] = PENDING
                                         /\ order_status'[o] # PENDING}) <= 1
          /\ Cardinality({o \in Orders : ~mission_tasks[o] /\ mission_tasks'[o]}) <= 1
          /\ Cardinality({o \in Orders : active_missions[o] = None
                                         /\ active_missions'[o] # None}) <= 1]_vars

\* a cycle has just dispatched one order (its task has not run yet) and left
\* another order Pending although another drone is eligible
C32_Witness ==
    \E o1, o2 \in Orders :
       /\ order_status[o1] = ORDER_IN_FLIGHT
       /\ task_pc[o1] = "created"
       /\ order_status[o2] = PENDING
       /\ \E d \in Drones : Eligible(d)


\* ------------------------------------------------------------ C33
\* the history of drone d, an empty one when the drone has none
HistoryOf(h, d) == IF d \in DOMAIN h THEN h[d] ELSE <<>>

\* new is old with one entry appended, cut to its last MaxHistoryLength
\* entries
OneArrival(old, new) ==
    /\ new # <<>>
    /\ LET all == Append(old, new[Len(new)])
       IN new = IF Len(all) > MaxHistoryLength
                THEN SubSeq(all, Len(all) - MaxHistoryLength + 1, Len(all))
                ELSE all

\* every history holds at most max_history_length entries, and a step that
\* changes a history appends one entry and drops the oldest beyond the bound
HistoryBoundedInOrder ==
    [][\A d \in Drones :
          /\ Len(HistoryOf(drone_telemetry_history', d)) <= MaxHistoryLength
          /\ HistoryOf(drone_telemetry_history', d) # HistoryOf(drone_telemetry_history, d)
                => OneArrival(HistoryOf(drone_telemetry_history, d),
                              HistoryOf(drone_telemetry_history', d))]_vars

\* C33: every drone's telemetry history holds at most max_history_length
\* entries; an append beyond the bound drops the oldest entries, leaving the
\* most recent ones in arrival order; and an entry is appended only for a
\* drone that is connected when the entry is collected.
C33_HistoryBoundedConnectedOnly ==
    [][\A d \in Drones :
          /\ Len(HistoryOf(drone_telemetry_history', d)) <= MaxHistoryLength
          /\ HistoryOf(drone_telemetry_history', d) # HistoryOf(drone_telemetry_history, d)
                => /\ OneArrival(HistoryOf(drone_telemetry_history, d),
                                 HistoryOf(drone_telemetry_history', d))
                   /\ d \in DOMAIN drones
                   /\ drones[d].is_connected]_vars


\* ------------------------------------------------------------ C34
\* C34: an iteration of the telemetry, health or fleet-aggregation loop that
\* raises ends no task: the task that raised is back at the head of its
\* while loop and the tasks of the other two loops are as they were; while
\* monitoring is on every loop has a task, which runs its next iteration.
C34_LoopIsolation ==
    /\ [](is_monitoring =>
             /\ \E i \in 1..MaxLoops : loop_tasks.telemetry[i].pc # "none"
             /\ loop_tasks.health > 0
             /\ loop_tasks.fleet > 0)
    /\ [][/\ \A i \in 1..MaxLoops :
                TelemetryIterationRaises(i)
                => /\ loop_tasks'.telemetry[i].pc = "head"
                   /\ \A j \in 1..MaxLoops \ {i} :
                         loop_tasks'.telemetry[j] = loop_tasks.telemetry[j]
                   /\ loop_tasks'.health = loop_tasks.health
                   /\ loop_tasks'.fleet = loop_tasks.fleet
                   /\ is_monitoring' = is_monitoring
          /\ \A k \in 0..NumDrones :
                HealthIterationRaises(clock, k)
                => loop_tasks' = loop_tasks /\ is_monitoring' = is_monitoring
          /\ FleetIterationRaises
                => loop_tasks' = loop_tasks /\ is_monitoring' = is_monitoring]_vars

\* an iteration of the health loop raised after the first drone was
\* assessed, and every loop still has its task with monitoring on
C34_Witness ==
    /\ DOMAIN drones = 1..NumDrones
    /\ DOMAIN drone_health_status = {1}
    /\ is_monitoring
    /\ \E i \in 1..MaxLoops : loop_tasks.telemetry[i].pc = "head"
    /\ loop_tasks.health > 0
    /\ loop_tasks.fleet > 0


\* ------------------------------------------------------------ C38
\* C38: whatever the sequence of start_monitoring and stop_monitoring calls,
\* each polling loop (telemetry, health, fleet aggregation) has at most one
\* task at any time, also when a stop is followed by a start before the old
\* tasks have seen the flag.
C38_OneTaskPerLoop ==
    /\ Cardinality({i \in 1..MaxLoops : loop_tasks.telemetry[i].pc # "none"}) <= 1
    /\ loop_tasks.health <= 1
    /\ loop_tasks.fleet <= 1

\* the mission service by itself: missions are created, executed and aborted
\* through the API
ServiceInit == Init /\ mavsdk
ServiceNext ==
    \/ \E m \in Missions : CreateMission(m)
    \/ \E m \in Missions : ExecuteMission(m)
    \/ \E m \in Missions, ok \in BOOLEAN : ExecStep(m, ok)
    \/ \E m \in Missions : AbortMission(m)
SpecService == ServiceInit /\ [][ServiceNext]_vars

\* the mission scheduler with its queue, over the mission service; the
\* missions handed to it are rows of the missions table in status created
QueueInit ==
    /\ PoolNew /\ FleetInit /\ MissionInit /\ TelemetryNew
    /\ mavsdk
    /\ mission_db = [m \in Missions |-> CREATED]
    /\ exec_task = [m \in Missions |-> NoExec]
    /\ mission_queue = MissionQueueNew
    /\ mode = SEMI_AUTO
    /\ is_running = FALSE
    /\ loop_await = 0
    /\ queue_ret = [op |-> "none", mission |-> 0, ok |-> FALSE]
    /\ mission_updates = [m \in Missions |-> {}]

QueueNext ==
    \/ \E m \in Missions, pr \in Priority, valid \in BOOLEAN : ScheduleMission(m, pr, valid)
    \/ \E resources_ok \in BOOLEAN : SchedulerIteration(resources_ok)
    \/ \E m \in Missions, ok \in BOOLEAN : ExecStep(m, ok)
    \/ \E m \in Missions, approved \in BOOLEAN : ApproveMission(m, approved)
    \/ \E md \in SchedulerMode : SetMode(md)
    \/ ClearQueue
    \/ StartScheduler
    \/ StopScheduler
SpecQueue == QueueInit /\ [][QueueNext]_vars

\* how far along Created -> Uploaded -> Executing -> terminal a status is
StatusRank(st) ==
    IF st = "none" THEN 0
    ELSE IF st = CREATED THEN 1
    ELSE IF st = UPLOADED THEN 2
    ELSE IF st = EXECUTING THEN 3
    ELSE 4

\* C35: a mission's status only moves forward along Created -> Uploaded ->
\* Executing -> {Completed, Aborted, Failed}, and a terminal status is never
\* overwritten: a mission aborted while its execution is in progress stays
\* Aborted when the execution finishes.
C35_TerminalStatusKept ==
    [][\A m \in Missions :
          mission_db'[m] # mission_db[m] =>
              /\ mission_db[m] \notin {COMPLETED, ABORTED, FAILED}
              /\ StatusRank(mission_db'[m]) > StatusRank(mission_db[m])]_vars

\* C36: a job's status is Completed only if the vehicle reported its mission
\* complete; a job whose mission task ended for another reason (upload or
\* start failure, exception, abort, shutdown of the mission runner) is never
\* marked Completed by the monitor.
C36_CompletedOnlyIfReported ==
    \A o \in Orders :
       order_status[o] = COMPLETED => mission_result[o] = "complete"

\* C37: the registry and the mission runner agree in every reachable state:
\* drone d has current_order_id = o exactly when order_assignments sends o to
\* d; every order in active_missions is assigned in the registry to the same
\* drone; and an Idle drone has no current order.
C37_BookkeepingAgrees ==
    /\ \A d \in DOMAIN drones : \A o \in Orders :
          drones[d].current_order_id = o <=> order_assignments[o] = d
    /\ \A o \in Orders :
          active_missions[o] # None => order_assignments[o] = active_missions[o]
    /\ \A d \in DOMAIN drones :
          drones[d].status = IDLE => drones[d].current_order_id = None

\* C39: get_next_mission returns the first high-priority mission when one is
\* queued, else the first medium one, else the first low one, else none; the
\* returned mission leaves the queue, and nothing else does; and the number
\* of queued missions never exceeds max_queue_size.
C39_PriorityOrderAndCap ==
    /\ [](QueueTotal(mission_queue) <= max_queue_size)
    /\ [][(queue_ret'.op = "get_next_mission" /\ queue_ret' # queue_ret) =>
            LET q == mission_queue
                r == queue_ret'.mission
            IN
            /\ r = IF q.high_priority # <<>> THEN Head(q.high_priority)
                   ELSE IF q.medium_priority # <<>> THEN Head(q.medium_priority)
                   ELSE IF q.low_priority # <<>> THEN Head(q.low_priority)
                   ELSE 0
            /\ Queued(mission_queue') = Queued(q) \ {r}
            /\ QueueTotal(mission_queue') = QueueTotal(q) - (IF r = 0 THEN 0 ELSE 1)]_vars

\* get_next_mission has taken a mission from a full queue and a low-priority
\* mission is still waiting
C39_Witness ==
    /\ queue_ret.op = "get_next_mission"
    /\ queue_ret.mission # 0
    /\ queue_ret.mission \notin Queued(mission_queue)
    /\ mission_queue.low_priority # <<>>
    /\ QueueTotal(mission_queue) = max_queue_size - 1

\* C40: no queued mission is lost: a mission for which approval was
\* requested (semi-automatic mode) or which was announced as ready (manual
\* mode), and which has been neither rejected nor handed to execution, is
\* still in the queue, where approve_mission can find it.
C40_NoQueuedMissionLost ==
    \A m \in Missions :
       (/\ \/ "approval_request" \in mission_updates[m]
           \/ "ready_for_manual_execution" \in mission_updates[m]
        /\ "rejected" \notin mission_updates[m]
        /\ mission_db[m] = CREATED)
       => m \in Queued(mission_queue)

====
